---------------------------- MODULE Spec2Model ----------------------------
(***************************************************************************)
(* Technical indicator and composite rating engine of the stock dashboard  *)
(* (src/src/hooks/useStockData.ts).                                        *)
(*                                                                         *)
(* JavaScript numbers are modelled as exact rationals.  The smoothing      *)
(* recurrences of RSI and EMA divide by the period at every sample, so     *)
(* numerators and denominators outgrow machine integers: a rational is a   *)
(* sign with two arbitrary-precision naturals (little-endian digit         *)
(* sequences in base BASE).                                                *)
(***************************************************************************)
EXTENDS Integers, Sequences, FiniteSets, TLC

-----------------------------------------------------------------------------
(* Arbitrary-precision naturals.                                           *)
(*                                                                         *)
(* The loops below carry their accumulators as operator arguments and test *)
(* the accumulator first (Len(acc) >= 0, Evaluated(acc)): each iteration   *)
(* then works on an evaluated value instead of nesting the whole loop in   *)
(* one expression.                                                         *)

BASE == 10000

Rest(a) == IF a = <<>> THEN <<>> ELSE Tail(a)

Dig(a) == IF a = <<>> THEN 0 ELSE Head(a)

RECURSIVE BigNorm(_)
BigNorm(a) ==
  IF a = <<>> THEN <<>>
  ELSE IF a[Len(a)] = 0 THEN BigNorm(SubSeq(a, 1, Len(a) - 1)) ELSE a

RECURSIVE BigOfNat(_)
BigOfNat(k) == IF k = 0 THEN <<>> ELSE <<k % BASE>> \o BigOfNat(k \div BASE)

RECURSIVE BigToNat(_)
BigToNat(a) == IF a = <<>> THEN 0 ELSE Head(a) + BASE * BigToNat(Tail(a))

RECURSIVE BigAddC(_, _, _)
BigAddC(a, b, c) ==
  IF a = <<>> /\ b = <<>> THEN (IF c = 0 THEN <<>> ELSE <<c>>)
  ELSE <<(Dig(a) + Dig(b) + c) % BASE>>
         \o BigAddC(Rest(a), Rest(b), (Dig(a) + Dig(b) + c) \div BASE)

BigAdd(a, b) == BigAddC(a, b, 0)

RECURSIVE BigSubB(_, _, _)
BigSubB(a, b, w) ==
  IF a = <<>> THEN <<>>
  ELSE IF Head(a) - Dig(b) - w < 0
  THEN <<Head(a) - Dig(b) - w + BASE>> \o BigSubB(Tail(a), Rest(b), 1)
  ELSE <<Head(a) - Dig(b) - w>> \o BigSubB(Tail(a), Rest(b), 0)

\* a - b for a >= b
BigSub(a, b) == BigNorm(BigSubB(a, b, 0))

RECURSIVE BigMulSmallC(_, _, _)
BigMulSmallC(a, k, c) ==
  IF a = <<>> THEN BigOfNat(c)
  ELSE <<(Head(a) * k + c) % BASE>>
         \o BigMulSmallC(Tail(a), k, (Head(a) * k + c) \div BASE)

\* a * k for a machine natural k < BASE
BigMulSmall(a, k) == IF k = 0 THEN <<>> ELSE BigMulSmallC(a, k, 0)

BigShift(a) == IF a = <<>> THEN <<>> ELSE <<0>> \o a

RECURSIVE BigMulBy(_, _, _, _)
\* acc + a * (b[i..Len(b)] shifted to its place), one digit of b at a time;
\* a arrives shifted by i - 1 digits
BigMulBy(a, b, i, acc) ==
  IF Len(acc) >= 0 /\ Len(a) >= 0 /\ i <= Len(b)
  THEN BigMulBy(BigShift(a), b, i + 1, BigAdd(acc, BigMulSmall(a, b[i])))
  ELSE acc

BigMul(a, b) ==
  IF a = <<>> \/ b = <<>> THEN <<>>
  ELSE IF Len(a) < Len(b) THEN BigMulBy(b, a, 1, <<>>)
  ELSE BigMulBy(a, b, 1, <<>>)

\* one step of the long division by k: the digit x is brought down to the
\* <<quotient, remainder>> of the digits above it
BigDivSmallStep(up, x, k) ==
  <<BigNorm(<<(up[2] * BASE + x) \div k>> \o up[1]), (up[2] * BASE + x) % k>>

RECURSIVE BigDivSmallFrom(_, _, _)
\* long division of the digits a[i..Len(a)] by a machine natural 0 < k < BASE:
\* <<quotient, remainder>>, the remainder a machine natural
BigDivSmallFrom(a, k, i) ==
  IF i > Len(a) THEN <<(<<>>), 0>>
  ELSE BigDivSmallStep(BigDivSmallFrom(a, k, i + 1), a[i], k)

BigDivSmall(a, k) == BigDivSmallFrom(a, k, 1)

RECURSIVE BigCmpFrom(_, _, _)
BigCmpFrom(a, b, i) ==
  IF i = 0 THEN 0
  ELSE IF a[i] < b[i] THEN -1
  ELSE IF a[i] > b[i] THEN 1
  ELSE BigCmpFrom(a, b, i - 1)

\* -1, 0 or 1 as a < b, a = b, a > b
BigCmp(a, b) ==
  IF Len(a) < Len(b) THEN -1
  ELSE IF Len(a) > Len(b) THEN 1
  ELSE BigCmpFrom(a, b, Len(a))

RECURSIVE BigQuotDigit(_, _, _, _)
\* the largest q in lo..hi with d * q <= r (d * lo <= r is given)
BigQuotDigit(r, d, lo, hi) ==
  IF lo = hi THEN lo
  ELSE IF BigCmp(BigMulSmall(d, (lo + hi + 1) \div 2), r) <= 0
  THEN BigQuotDigit(r, d, (lo + hi + 1) \div 2, hi)
  ELSE BigQuotDigit(r, d, lo, (lo + hi + 1) \div 2 - 1)

\* the quotient digit q of the running remainder r joins the quotient
BigDivModDigit(quot, r, d, q) ==
  <<BigNorm(<<q>> \o quot), BigSub(r, BigMulSmall(d, q))>>

\* r is the remainder of the digits above with the next digit brought down
BigDivModStep(up, r, d) ==
  BigDivModDigit(up[1], r, d, BigQuotDigit(r, d, 0, BASE - 1))

\* one step of the long division by d: the digit x is brought down to the
\* <<quotient, remainder>> of the digits above it
BigDivModBring(up, x, d) == BigDivModStep(up, BigNorm(<<x>> \o up[2]), d)

RECURSIVE BigDivModFrom(_, _, _)
\* long division of the digits a[i..Len(a)] by d: <<quotient, remainder>>
BigDivModFrom(a, d, i) ==
  IF i > Len(a) THEN <<(<<>>), (<<>>)>>
  ELSE BigDivModBring(BigDivModFrom(a, d, i + 1), a[i], d)

BigDivModSmall(qr) == <<qr[1], BigOfNat(qr[2])>>

\* <<floor(a / d), a mod d>> for d # 0
BigDivMod(a, d) ==
  IF Len(d) = 1 THEN BigDivModSmall(BigDivSmall(a, d[1]))
  ELSE BigDivModFrom(a, d, 1)

BigDiv(a, d) == BigDivMod(a, d)[1]

BigMod(a, d) == BigDivMod(a, d)[2]

-----------------------------------------------------------------------------
(* Numbers: exact signed rationals n/d, d # 0; zero is never negative.     *)

QMake(neg, n, d) == [neg |-> (neg /\ n # <<>>), n |-> n, d |-> d]

Abs(k) == IF k < 0 THEN -k ELSE k

QRat(a, b) == QMake((a < 0) # (b < 0), BigOfNat(Abs(a)), BigOfNat(Abs(b)))

QInt(k) == QRat(k, 1)

QIsZero(x) == x.n = <<>>

QNeg(x) == QMake(~x.neg, x.n, x.d)

QAbs(x) == QMake(FALSE, x.n, x.d)

\* -1, 0 or 1 as x < y, x = y, x > y
QCmp(x, y) ==
  IF x.neg /\ ~y.neg THEN -1
  ELSE IF ~x.neg /\ y.neg THEN 1
  ELSE (IF x.neg THEN -1 ELSE 1)
         * BigCmp(BigMul(x.n, y.d), BigMul(y.n, x.d))

QLt(x, y) == QCmp(x, y) < 0

QLe(x, y) == QCmp(x, y) <= 0

QGt(x, y) == QCmp(x, y) > 0

QGe(x, y) == QCmp(x, y) >= 0

QEq(x, y) == QCmp(x, y) = 0

\* xn/d + yn/d with the given signs
QAddSame(xneg, xn, yneg, yn, d) ==
  IF xneg = yneg THEN QMake(xneg, BigAdd(xn, yn), d)
  ELSE IF BigCmp(xn, yn) >= 0 THEN QMake(xneg, BigSub(xn, yn), d)
  ELSE QMake(yneg, BigSub(yn, xn), d)

\* d is a one-digit denominator that divides e
SmallDivides(d, e) == Len(d) = 1 /\ BigDivSmall(e, d[1])[2] = 0

\* the denominator a sum of fractions over d and over e is taken over: the
\* larger one when the smaller one divides it, the product otherwise
CommonDenominator(d, e) ==
  IF d = e \/ SmallDivides(e, d) THEN d
  ELSE IF SmallDivides(d, e) THEN e
  ELSE BigMul(d, e)

\* CommonDenominator(d, e) / d
DenominatorFactor(d, e) ==
  IF d = e \/ SmallDivides(e, d) THEN <<1>>
  ELSE IF SmallDivides(d, e) THEN BigDivSmall(e, d[1])[1]
  ELSE e

QAdd(x, y) ==
  QAddSame(x.neg, BigMul(x.n, DenominatorFactor(x.d, y.d)),
           y.neg, BigMul(y.n, DenominatorFactor(y.d, x.d)),
           CommonDenominator(x.d, y.d))

QSub(x, y) == QAdd(x, QNeg(y))

QMul(x, y) == QMake(x.neg # y.neg, BigMul(x.n, y.n), BigMul(x.d, y.d))

\* x / y for y # 0
QDiv(x, y) == QMake(x.neg # y.neg, BigMul(x.n, y.d), BigMul(x.d, y.n))

RECURSIVE BigGcd(_, _)
\* Euclid's algorithm
BigGcd(a, b) == IF b = <<>> THEN a ELSE BigGcd(b, BigMod(a, b))

QReduceBy(x, g) == QMake(x.neg, BigDiv(x.n, g), BigDiv(x.d, g))

\* x in lowest terms: the same number, written with smaller naturals
QReduce(x) == QReduceBy(x, BigGcd(x.n, x.d))

\* the magnitude of floor(x) from <<quotient, remainder>> of |x|
FloorMagnitude(neg, qr) ==
  IF neg /\ qr[2] # <<>> THEN BigAdd(qr[1], <<1>>) ELSE qr[1]

\* the largest integer <= x, as a number
QFloor(x) == QMake(x.neg, FloorMagnitude(x.neg, BigDivMod(x.n, x.d)), <<1>>)

\* Math.round: the nearest integer, halves towards +infinity
MathRound(x) == QFloor(QAdd(x, QRat(1, 2)))

\* the machine integer of an integral number
QToInt(x) == (IF x.neg THEN -1 ELSE 1) * BigToNat(BigDiv(x.n, x.d))

\* Newton's step for the integer square root of a
BigNewtonStep(a, r) == BigDivSmall(BigAdd(r, BigDiv(a, r)), 2)[1]

RECURSIVE BigNewton(_, _, _)
\* Newton's iteration from r >= sqrt(a); t is the iterate after r
BigNewton(a, r, t) ==
  IF BigCmp(t, r) >= 0 THEN r ELSE BigNewton(a, t, BigNewtonStep(a, t))

\* the power of BASE above sqrt(a)
BigSqrtStart(a) == [i \in 1..((Len(a) + 1) \div 2) |-> 0] \o <<1>>

\* floor(sqrt(a))
BigISqrt(a) ==
  IF a = <<>> THEN <<>>
  ELSE BigNewton(a, BigSqrtStart(a), BigNewtonStep(a, BigSqrtStart(a)))

\* resolution of the square root: results are multiples of 1/(d * SqrtScale)
SqrtScale == 1000

\* Math.sqrt for x >= 0, rounded down to the resolution
MathSqrt(x) ==
  QMake(FALSE,
        BigISqrt(BigMul(BigMul(x.n, x.d), BigOfNat(SqrtScale * SqrtScale))),
        BigMul(x.d, BigOfNat(SqrtScale)))

-----------------------------------------------------------------------------
(* Indicator library.  prices is a sequence of machine integers (array     *)
(* index i of the source is index i + 1 here).                             *)

\* TRUE, once the number x is evaluated
Evaluated(x) == x.neg \in BOOLEAN

\* prices[i] of the source, as a number
At(prices, i) == QInt(prices[i + 1])

\* LastOrZero taking the first price instead of the last
FirstOrZero(prices) == IF Len(prices) = 0 THEN QInt(0) ELSE At(prices, 0)

\* prices[prices.length - 1] || 0
LastOrZero(prices) ==
  IF Len(prices) = 0 THEN QInt(0) ELSE At(prices, Len(prices) - 1)

\* prices[i] - prices[i - 1]
Change(prices, i) == QSub(At(prices, i), At(prices, i - 1))

\* lines 69-70: a rise is added to gains, anything else to losses
RSISeedStep(sums, change) ==
  IF QGt(change, QInt(0)) THEN <<QAdd(sums[1], change), sums[2]>>
  ELSE <<sums[1], QAdd(sums[2], QAbs(change))>>

RECURSIVE RSISeed(_, _, _, _)
\* the loop of lines 67-71: sums = <<gains, losses>> after i..period
RSISeed(prices, period, i, sums) ==
  IF Len(sums) = 2 /\ i <= period
  THEN RSISeed(prices, period, i + 1, RSISeedStep(sums, Change(prices, i)))
  ELSE sums

\* line 79: change > 0 ? change : 0
Gain(change) == IF QGt(change, QInt(0)) THEN change ELSE QInt(0)

\* Loss without Math.abs
LossSigned(change) == IF QLt(change, QInt(0)) THEN change ELSE QInt(0)

\* line 80: change < 0 ? Math.abs(change) : 0
Loss(change) == IF QLt(change, QInt(0)) THEN QAbs(change) ELSE QInt(0)

\* lines 82-83: (avg * (period - 1) + x) / period
WilderSmooth(avg, x, period) ==
  QDiv(QAdd(QMul(avg, QInt(period - 1)), x), QInt(period))

RSISmoothStep(avg, change, period) ==
  <<WilderSmooth(avg[1], Gain(change), period),
    WilderSmooth(avg[2], Loss(change), period)>>

RECURSIVE RSISmooth(_, _, _, _)
\* the loop of lines 77-84: avg = <<avgGain, avgLoss>> after i..length-1
RSISmooth(prices, period, i, avg) ==
  IF Len(avg) = 2 /\ i < Len(prices)
  THEN RSISmooth(prices, period, i + 1,
                 RSISmoothStep(avg, Change(prices, i), period))
  ELSE avg

\* lines 73-74: gains / period, losses / period
RSISeedAverages(sums, period) ==
  <<QDiv(sums[1], QInt(period)), QDiv(sums[2], QInt(period))>>

\* RelativeStrength with the ratio inverted
RelativeStrengthInverted(avgGain, avgLoss) ==
  QDiv(avgLoss, IF QIsZero(avgGain) THEN QInt(1) ELSE avgGain)

\* line 86: avgGain / (avgLoss || 1)
RelativeStrength(avgGain, avgLoss) ==
  QDiv(avgGain, IF QIsZero(avgLoss) THEN QInt(1) ELSE avgLoss)

\* line 87: 100 - (100 / (1 + rs))
RSIValue(rs) == QSub(QInt(100), QDiv(QInt(100), QAdd(QInt(1), rs)))

\* RSIOfAverages returning 100 when there is no loss
RSIOfAveragesSaturating(avg) ==
  IF QIsZero(avg[2]) THEN QInt(100)
  ELSE RSIValue(RelativeStrength(avg[1], avg[2]))

RSIOfAverages(avg) == RSIValue(RelativeStrength(avg[1], avg[2]))

\* calculateRSI returning 0 for a short series, as the averages do
calculateRSIShortZero(prices, period) ==
  IF Len(prices) < period + 1 THEN QInt(0)
  ELSE RSIOfAverages(
         RSISmooth(prices, period, period + 1,
           RSISeedAverages(RSISeed(prices, period, 1, <<QInt(0), QInt(0)>>),
                           period)))

calculateRSI(prices, period) ==
  IF Len(prices) < period + 1 THEN QInt(50)
  ELSE RSIOfAverages(
         RSISmooth(prices, period, period + 1,
           RSISeedAverages(RSISeed(prices, period, 1, <<QInt(0), QInt(0)>>),
                           period)))

\* prices.slice(-period) for 1 <= period
SliceLast(prices, period) ==
  IF period >= Len(prices) THEN prices
  ELSE SubSeq(prices, Len(prices) - period + 1, Len(prices))

RECURSIVE SumFrom(_, _, _)
\* slice.reduce((sum, price) => sum + price, 0)
SumFrom(slice, i, sum) ==
  IF Evaluated(sum) /\ i < Len(slice)
  THEN SumFrom(slice, i + 1, QAdd(sum, At(slice, i)))
  ELSE sum

\* calculateSMA averaging the prices there are when the series is short
calculateSMAPartial(prices, period) ==
  IF Len(prices) = 0 THEN QInt(0)
  ELSE QDiv(SumFrom(SliceLast(prices, period), 0, QInt(0)),
            QInt(IF Len(prices) < period THEN Len(prices) ELSE period))

calculateSMA(prices, period) ==
  IF Len(prices) < period THEN LastOrZero(prices)
  ELSE QDiv(SumFrom(SliceLast(prices, period), 0, QInt(0)), QInt(period))

\* Math.pow(x, 2)
MathPow2(x) == QMul(x, x)

RECURSIVE SquaresFrom(_, _, _, _)
\* slice.reduce((sum, price) => sum + Math.pow(price - sma, 2), 0)
SquaresFrom(slice, sma, i, sum) ==
  IF Evaluated(sum) /\ i < Len(slice)
  THEN SquaresFrom(slice, sma, i + 1,
                   QAdd(sum, MathPow2(QSub(At(slice, i), sma))))
  ELSE sum

\* lines 105-106: the standard deviation of the last period prices
StdDev(prices, period, sma) ==
  MathSqrt(QDiv(SquaresFrom(SliceLast(prices, period), sma, 0, QInt(0)),
                QInt(period)))

\* BandsAround with upper and lower exchanged
BandsAroundExchanged(sma, width) ==
  [upper |-> QSub(sma, width), middle |-> sma, lower |-> QAdd(sma, width)]

\* lines 108-112: sma +- stdDev * multiplier
BandsAround(sma, width) ==
  [upper |-> QAdd(sma, width), middle |-> sma, lower |-> QSub(sma, width)]

\* lines 99-113, sma being calculateSMA(prices, period)
BollingerBandsOf(prices, period, multiplier, sma) ==
  IF Len(prices) < period
  THEN [upper  |-> QMul(sma, QRat(102, 100)),
        middle |-> sma,
        lower  |-> QMul(sma, QRat(98, 100))]
  ELSE BandsAround(sma, QMul(StdDev(prices, period, sma), multiplier))

calculateBollingerBands(prices, period, multiplier) ==
  BollingerBandsOf(prices, period, multiplier, calculateSMA(prices, period))

RECURSIVE EMAFrom(_, _, _, _)
\* the loop of lines 143-145
EMAFrom(prices, multiplier, i, ema) ==
  IF Evaluated(ema) /\ i < Len(prices)
  THEN EMAFrom(prices, multiplier, i + 1,
               QAdd(QMul(At(prices, i), multiplier),
                    QMul(ema, QSub(QInt(1), multiplier))))
  ELSE ema

\* calculateEMA smoothing the trailing period window only
calculateEMAWindowed(prices, period) ==
  IF Len(prices) < period THEN LastOrZero(prices)
  ELSE EMAFrom(SliceLast(prices, period), QDiv(QInt(2), QInt(period + 1)), 1,
               At(SliceLast(prices, period), 0))

calculateEMA(prices, period) ==
  IF Len(prices) < period THEN LastOrZero(prices)
  ELSE EMAFrom(prices, QDiv(QInt(2), QInt(period + 1)), 1, At(prices, 0))

MACDMinLength == 26

ZeroMACD == [value |-> QInt(0), signal |-> QInt(0), histogram |-> QInt(0)]

\* MACDRecord with the histogram subtracted the other way round
MACDRecordReversed(macdLine, signalLine) ==
  [value     |-> macdLine,
   signal    |-> signalLine,
   histogram |-> QSub(signalLine, macdLine)]

\* lines 129-133
MACDRecord(macdLine, signalLine) ==
  [value     |-> macdLine,
   signal    |-> signalLine,
   histogram |-> QSub(macdLine, signalLine)]

\* line 125: the signal line is 0.9 times the MACD line
MACDOfLine(macdLine) == MACDRecord(macdLine, QMul(macdLine, QRat(9, 10)))

\* calculateMACD with the length test off by one (<= instead of <)
calculateMACDOffByOne(prices) ==
  IF Len(prices) <= MACDMinLength THEN ZeroMACD
  ELSE MACDOfLine(QSub(calculateEMA(prices, 12), calculateEMA(prices, 26)))

calculateMACD(prices) ==
  IF Len(prices) < MACDMinLength THEN ZeroMACD
  ELSE MACDOfLine(QSub(calculateEMA(prices, 12), calculateEMA(prices, 26)))

-----------------------------------------------------------------------------
(* Composite rating engine.  technicalScore only ever holds an integer and *)
(* is a machine integer here; every other quantity is a number.            *)

Max(a, b) == IF a >= b THEN a ELSE b

Min(a, b) == IF a <= b THEN a ELSE b

\* x.toFixed(digits): x rounded to the nearest multiple of 10^-digits, as the
\* count of such units (halves away from zero)
ToFixed(x, digits) ==
  (IF x.neg THEN -1 ELSE 1)
    * QToInt(QFloor(QAdd(QMul(QAbs(x), QInt(IF digits = 1 THEN 10 ELSE 100)),
                         QRat(1, 2))))

\* RSIAnalysis with the thresholds inclusive (<= 30, >= 70)
RSIAnalysisInclusive(rsi) ==
  IF QLe(rsi, QInt(30)) THEN [technicalScore |-> 50 + 20, trend |-> "bullish"]
  ELSE IF QGe(rsi, QInt(70))
  THEN [technicalScore |-> 50 - 20, trend |-> "bearish"]
  ELSE [technicalScore |-> 50, trend |-> "neutral"]

\* RSIAnalysis moving the score and leaving the trend label alone
RSIAnalysisScoreOnly(rsi) ==
  IF QLt(rsi, QInt(30)) THEN [technicalScore |-> 50 + 20, trend |-> "neutral"]
  ELSE IF QGt(rsi, QInt(70))
  THEN [technicalScore |-> 50 - 20, trend |-> "neutral"]
  ELSE [technicalScore |-> 50, trend |-> "neutral"]

\* lines 156-168: the base score and the RSI analysis
RSIAnalysis(rsi) ==
  IF QLt(rsi, QInt(30)) THEN [technicalScore |-> 50 + 20, trend |-> "bullish"]
  ELSE IF QGt(rsi, QInt(70))
  THEN [technicalScore |-> 50 - 20, trend |-> "bearish"]
  ELSE [technicalScore |-> 50, trend |-> "neutral"]

\* MovingAverageAnalysis testing only the price against the 20-day average
MovingAverageAnalysisPriceOnly(s, currentPrice, sma20, sma50, sma200) ==
  IF QGt(currentPrice, sma20)
  THEN [technicalScore |-> s.technicalScore + 25, trend |-> "bullish"]
  ELSE IF QLt(currentPrice, sma20)
  THEN [technicalScore |-> s.technicalScore - 25, trend |-> "bearish"]
  ELSE s

\* MovingAverageAnalysis setting the score from the base instead of adding
\* to the outcome of the RSI analysis
MovingAverageAnalysisOverriding(s, currentPrice, sma20, sma50, sma200) ==
  IF QGt(currentPrice, sma20) /\ QGt(sma20, sma50) /\ QGt(sma50, sma200)
  THEN [technicalScore |-> 50 + 25, trend |-> "bullish"]
  ELSE IF QLt(currentPrice, sma20) /\ QLt(sma20, sma50) /\ QLt(sma50, sma200)
  THEN [technicalScore |-> 50 - 25, trend |-> "bearish"]
  ELSE s

\* lines 170-177: the moving average analysis, on the outcome of RSIAnalysis
MovingAverageAnalysis(s, currentPrice, sma20, sma50, sma200) ==
  IF QGt(currentPrice, sma20) /\ QGt(sma20, sma50) /\ QGt(sma50, sma200)
  THEN [technicalScore |-> s.technicalScore + 25, trend |-> "bullish"]
  ELSE IF QLt(currentPrice, sma20) /\ QLt(sma20, sma50) /\ QLt(sma50, sma200)
  THEN [technicalScore |-> s.technicalScore - 25, trend |-> "bearish"]
  ELSE s

\* OverallRating with the band limits exclusive (> instead of >=)
OverallRatingExclusive(technicalScore) ==
  IF technicalScore > 80 THEN "Strong Buy"
  ELSE IF technicalScore > 65 THEN "Buy"
  ELSE IF technicalScore > 35 THEN "Hold"
  ELSE IF technicalScore > 20 THEN "Sell"
  ELSE "Strong Sell"

\* lines 180-184
OverallRating(technicalScore) ==
  IF technicalScore >= 80 THEN "Strong Buy"
  ELSE IF technicalScore >= 65 THEN "Buy"
  ELSE IF technicalScore >= 35 THEN "Hold"
  ELSE IF technicalScore >= 20 THEN "Sell"
  ELSE "Strong Sell"

\* RiskLevel with the thresholds inclusive (>= 5, <= -5, >= 2)
RiskLevelInclusive(changePercent) ==
  IF QGe(changePercent, QInt(5)) \/ QLe(changePercent, QInt(-5)) THEN "High"
  ELSE IF QGe(QAbs(changePercent), QInt(2)) THEN "Medium"
  ELSE "Low"

\* lines 187-189
RiskLevel(changePercent) ==
  IF QGt(changePercent, QInt(5)) \/ QLt(changePercent, QInt(-5)) THEN "High"
  ELSE IF QGt(QAbs(changePercent), QInt(2)) THEN "Medium"
  ELSE "Low"

\* SentimentLabel with the band limits exclusive (> instead of >=)
SentimentLabelExclusive(technicalScore) ==
  IF technicalScore > 80 THEN "Very Positive"
  ELSE IF technicalScore > 60 THEN "Positive"
  ELSE IF technicalScore > 40 THEN "Neutral"
  ELSE IF technicalScore > 20 THEN "Negative"
  ELSE "Very Negative"

\* lines 207-210
SentimentLabel(technicalScore) ==
  IF technicalScore >= 80 THEN "Very Positive"
  ELSE IF technicalScore >= 60 THEN "Positive"
  ELSE IF technicalScore >= 40 THEN "Neutral"
  ELSE IF technicalScore >= 20 THEN "Negative"
  ELSE "Very Negative"

\* (offset / width) * 100 formatted with one decimal; a zero width divides
\* by zero
PercentOfRange(offset, width) ==
  IF QIsZero(width)
  THEN [text |-> IF QIsZero(offset) THEN "NaN"
                 ELSE IF offset.neg THEN "-Infinity" ELSE "Infinity",
        tenths |-> 0]
  ELSE [text |-> "finite",
        tenths |-> ToFixed(QMul(QDiv(offset, width), QInt(100)), 1)]

\* line 196: the position in the 52-week range
RangePosition(currentPrice, low52Week, high52Week) ==
  PercentOfRange(QSub(currentPrice, low52Week), QSub(high52Week, low52Week))

\* lines 191-197: the variable parts of the five template strings
KeyFactors(data, technicalIndicators, trend) ==
  << [rsi   |-> ToFixed(technicalIndicators.rsi, 1),
      state |-> IF QLt(technicalIndicators.rsi, QInt(30)) THEN "oversold"
                ELSE IF QGt(technicalIndicators.rsi, QInt(70))
                THEN "overbought"
                ELSE "neutral"],
     [side  |-> IF QGt(data.currentPrice, technicalIndicators.sma20)
                THEN "above" ELSE "below",
      sma20 |-> ToFixed(technicalIndicators.sma20, 2)],
     [trend |-> trend],
     [interest |-> IF QGt(data.volume, technicalIndicators.avgVolume)
                   THEN "increased" ELSE "decreased"],
     RangePosition(data.currentPrice, data.low52Week, data.high52Week) >>

\* Confidence with Math.min and Math.max exchanged
ConfidenceExchanged(technicalScore) == Max(Min(technicalScore, 20), 95)

\* line 201: Math.min(Math.max(technicalScore, 20), 95)
Confidence(technicalScore) == Min(Max(technicalScore, 20), 95)

\* lines 212-214: Math.round(technicalScore * weight + Math.random() * spread)
RandomisedScore(technicalScore, weight, random, spread) ==
  QToInt(MathRound(QAdd(QMul(QInt(technicalScore), weight),
                        QMul(random, QInt(spread)))))

\* lines 199-215: the record returned, s being the outcome of the RSI and
\* moving average analyses
AnalysisOf(data, technicalIndicators, s, random1, random2) ==
  [overallRating |-> OverallRating(s.technicalScore),
   confidence    |-> Confidence(s.technicalScore),
   riskLevel     |-> RiskLevel(data.changePercent),
   priceTarget   |-> QMul(data.currentPrice,
                          QAdd(QInt(1),
                               QDiv(QInt(s.technicalScore - 50), QInt(200)))),
   keyFactors    |-> KeyFactors(data, technicalIndicators, s.trend),
   sentiment     |-> [score |-> s.technicalScore,
                      label |-> SentimentLabel(s.technicalScore)],
   technicalScore   |-> QToInt(MathRound(QInt(s.technicalScore))),
   fundamentalScore |->
     RandomisedScore(s.technicalScore, QRat(9, 10), random1, 20),
   marketScore      |->
     RandomisedScore(s.technicalScore, QRat(11, 10), random2, 15)]

\* lines 151-216; random1 and random2 are the two Math.random() draws
generateAIAnalysis(data, technicalIndicators, random1, random2) ==
  AnalysisOf(data, technicalIndicators,
             MovingAverageAnalysis(RSIAnalysis(technicalIndicators.rsi),
               data.currentPrice, technicalIndicators.sma20,
               technicalIndicators.sma50, technicalIndicators.sma200),
             random1, random2)

\* PredictedPrice with the draw not centred (Math.random() * spread)
PredictedPriceUncentered(currentPrice, drift, random, spread) ==
  QMul(currentPrice, QAdd(QAdd(QInt(1), drift), QMul(random, spread)))

\* currentPrice * (1 + drift + (Math.random() - 0.5) * spread)
PredictedPrice(currentPrice, drift, random, spread) ==
  QMul(currentPrice,
       QAdd(QAdd(QInt(1), drift), QMul(QSub(random, QRat(1, 2)), spread)))

\* BuildPrediction taking the trend label of the key factors
BuildPredictionKeyFactorTrend(currentPrice, indicators, analysis, random3, random4, random5) ==
  [nextDay   |-> PredictedPrice(currentPrice, QInt(0), random3, QRat(3, 100)),
   nextWeek  |-> PredictedPrice(currentPrice,
                   QDiv(QSub(indicators.rsi, QInt(50)), QInt(1000)),
                   random4, QRat(5, 100)),
   nextMonth |-> PredictedPrice(currentPrice,
                   QDiv(QSub(indicators.rsi, QInt(50)), QInt(500)),
                   random5, QRat(1, 10)),
   confidence |-> analysis.confidence,
   trend |-> analysis.keyFactors[3].trend]

\* lines 684-691 (352-359 in the first version of the hook); random3..5 are
\* the three Math.random() draws
BuildPrediction(currentPrice, indicators, analysis, random3, random4, random5) ==
  [nextDay   |-> PredictedPrice(currentPrice, QInt(0), random3, QRat(3, 100)),
   nextWeek  |-> PredictedPrice(currentPrice,
                   QDiv(QSub(indicators.rsi, QInt(50)), QInt(1000)),
                   random4, QRat(5, 100)),
   nextMonth |-> PredictedPrice(currentPrice,
                   QDiv(QSub(indicators.rsi, QInt(50)), QInt(500)),
                   random5, QRat(1, 10)),
   confidence |-> analysis.confidence,
   trend |-> IF analysis.sentiment.score >= 60 THEN "bullish"
             ELSE IF analysis.sentiment.score <= 40 THEN "bearish"
             ELSE "neutral"]

-----------------------------------------------------------------------------
(* State.                                                                  *)

VARIABLES
  pc,       \* "input": arguments chosen; "returned": the call has returned
  prices,   \* the price series handed to the indicator functions
  call,     \* the indicator call made: [fn, period], or NoCall
  result,   \* what the call returned, or NoResult
  stockResponse,        \* the body the edge function answered with
  data,                 \* the stockData record handed to generateAIAnalysis
  technicalIndicators,  \* the indicator snapshot
  aiAnalysis,           \* what generateAIAnalysis returned
  prediction,           \* the prediction record of fetchStockData
  random,               \* the Math.random() draws taken so far, in order
  quote,                \* what Yahoo Finance answered: the price and history
  request,              \* the request the edge function is serving
  http,                 \* the outcome of the request to the edge function
  query,                \* the state of the stock query of useStockData
  newsResponse,         \* what the news search answered
  articles,             \* the articles fetchNewsData returned
  ticker,               \* the text of the search input of StockDashboard,
                        \* a sequence of characters
  searchTicker          \* the ticker StockDashboard has submitted

appVars == <<request, http, query, newsResponse, articles, ticker,
             searchTicker>>

vars == <<pc, prices, call, result, stockResponse, data, technicalIndicators,
          aiAnalysis, prediction, random, quote, appVars>>

libVars == <<call, result>>

engineVars == <<stockResponse, data, technicalIndicators, aiAnalysis,
                prediction, random, quote>>

NoResponse == [kind |-> "none"]

NoData == [kind |-> "none"]

NoIndicators == [kind |-> "none"]

NoAnalysis == [kind |-> "none"]

NoPrediction == [kind |-> "none"]

NoQuote == [kind |-> "none"]

NoCall == [fn |-> "none", period |-> 0]

NoResult == [kind |-> "none"]

NoRequest == [kind |-> "none"]

NoHttp == [kind |-> "none"]

\* a query that is not enabled
NoQuery == [status |-> "pending", fetchStatus |-> "idle", failureCount |-> 0]

NoNews == [kind |-> "none"]

\* nothing requested, searched or typed
AppIdle ==
  /\ request = NoRequest
  /\ http = NoHttp
  /\ query = NoQuery
  /\ newsResponse = NoNews
  /\ articles = <<>>
  /\ ticker = <<>>
  /\ searchTicker = <<>>

-----------------------------------------------------------------------------
(* Inputs of the indicator library: series that start at BasePrice and     *)
(* repeat a two-step pattern of day-to-day changes, so that constant,      *)
(* strictly rising, strictly falling and oscillating histories all occur.  *)

MaxLen == 30

BasePrice == 100

Deltas == {-2, -1, 0, 1, 2}

Patterns == {<<a, b>> : a \in Deltas, b \in Deltas}

\* the sum of the first k changes of the repeated pattern
Drift(pat, k) == (k \div 2) * (pat[1] + pat[2]) + (k % 2) * pat[1]

SeriesOf(pat, len) == [i \in 1..len |-> BasePrice + Drift(pat, i - 1)]

Series == {SeriesOf(pat, len) : pat \in Patterns, len \in 0..MaxLen}

DefaultRSIPeriod == 14

DefaultBollingerPeriod == 20

DefaultBollingerMultiplier == 2

\* lookback periods the functions are called with: the small ones, the
\* defaults and those fetchStockData passes
MaxSmallPeriod == 2

Periods == (1..MaxSmallPeriod) \cup {12, DefaultRSIPeriod, DefaultBollingerPeriod, MACDMinLength, 50, 200}

-----------------------------------------------------------------------------
(* Indicator library calls.                                                *)

InitLib ==
  /\ pc = "input"
  /\ prices \in Series
  /\ call = NoCall
  /\ result = NoResult
  /\ stockResponse = NoResponse
  /\ data = NoData
  /\ technicalIndicators = NoIndicators
  /\ aiAnalysis = NoAnalysis
  /\ prediction = NoPrediction
  /\ random = <<>>
  /\ quote = NoQuote
  /\ AppIdle

Returns(fn, period, value) ==
  /\ pc = "input"
  /\ pc' = "returned"
  /\ call' = [fn |-> fn, period |-> period]
  /\ result' = value
  /\ UNCHANGED <<prices, engineVars, appVars>>

CallRSI ==
  \E period \in Periods :
    Returns("calculateRSI", period, calculateRSI(prices, period))

CallSMA ==
  \E period \in Periods :
    Returns("calculateSMA", period, calculateSMA(prices, period))

CallEMA ==
  \E period \in Periods :
    Returns("calculateEMA", period, calculateEMA(prices, period))

CallBollingerBands ==
  \E period \in Periods :
    Returns("calculateBollingerBands", period,
            calculateBollingerBands(prices, period,
                                    QInt(DefaultBollingerMultiplier)))

CallMACD == Returns("calculateMACD", 0, calculateMACD(prices))

NextLib == CallRSI \/ CallSMA \/ CallEMA \/ CallBollingerBands \/ CallMACD

SpecLib == InitLib /\ [][NextLib]_vars

-----------------------------------------------------------------------------
(* Properties of the indicator library (SpecLib).                          *)

Returned(fn) == pc = "returned" /\ call.fn = fn

StrictlyIncreasing(s) == \A i \in 1..(Len(s) - 1) : s[i] < s[i + 1]

StrictlyDecreasing(s) == \A i \in 1..(Len(s) - 1) : s[i] > s[i + 1]

IsConstant(s) == \A i \in 1..(Len(s) - 1) : s[i] = s[i + 1]

AllPositive(s) == \A i \in 1..Len(s) : s[i] > 0

AllZeroMACD(m) == QIsZero(m.value) /\ QIsZero(m.signal) /\ QIsZero(m.histogram)

\* C1: for every series of positive prices, of any length, calculateRSI
\* returns a value r with 0 <= r <= 100.
C1_RSIInRange ==
  (Returned("calculateRSI") /\ AllPositive(prices)) =>
    (QGe(result, QInt(0)) /\ QLe(result, QInt(100)))

\* a series longer than the period went through the smoothing and got an RSI
\* strictly inside the range and off the neutral value
C1_Witness ==
  /\ Returned("calculateRSI")
  /\ call.period = DefaultRSIPeriod
  /\ Len(prices) > call.period + 1
  /\ QGt(result, QInt(50))
  /\ QLt(result, QInt(100))

\* C2 as stated: for every strictly increasing series longer than the period
\* calculateRSI returns 100.
C2_IncreasingGives100 ==
  (Returned("calculateRSI") /\ StrictlyIncreasing(prices)
     /\ Len(prices) > call.period) =>
    QEq(result, QInt(100))

\* C3: for every strictly decreasing series longer than the period
\* calculateRSI returns 0.
C3_DecreasingGives0 ==
  (Returned("calculateRSI") /\ StrictlyDecreasing(prices)
     /\ Len(prices) > call.period) =>
    QEq(result, QInt(0))

\* a strictly falling series with uneven steps, longer than the default
\* period, was rated
C3_Witness ==
  /\ Returned("calculateRSI")
  /\ call.period = DefaultRSIPeriod
  /\ Len(prices) > call.period + 1
  /\ StrictlyDecreasing(prices)
  /\ prices[1] - prices[2] # prices[2] - prices[3]
  /\ QEq(result, QInt(0))

\* C4 as stated: calculateMACD returns the all-zero record if and only if the
\* series has fewer than 26 prices.
C4_ZeroIffShort ==
  Returned("calculateMACD") =>
    (AllZeroMACD(result) <=> Len(prices) < MACDMinLength)

\* C4 as amended: every series shorter than 26 yields the all-zero record; a
\* series of 26 or more prices yields the all-zero record exactly when its
\* 12-period and 26-period EMA coincide, as they do for a constant series.
C4_ZeroIffShortOrEqualEMA ==
  Returned("calculateMACD") =>
    /\ Len(prices) < MACDMinLength => result = ZeroMACD
    /\ Len(prices) >= MACDMinLength =>
         (AllZeroMACD(result)
            <=> QEq(calculateEMA(prices, 12), calculateEMA(prices, 26)))
    /\ (Len(prices) >= MACDMinLength /\ IsConstant(prices)) =>
         AllZeroMACD(result)

\* a series of exactly 26 prices got a record that is not all-zero
C4_Witness ==
  /\ Returned("calculateMACD")
  /\ Len(prices) = MACDMinLength
  /\ ~QIsZero(result.value)
  /\ ~QIsZero(result.histogram)

\* C5: for every non-empty series of positive prices, in the short-series
\* branch and in the standard-deviation branch, calculateBollingerBands
\* returns upper >= middle >= lower.
C5_BandsOrdered ==
  (Returned("calculateBollingerBands") /\ Len(prices) > 0
     /\ AllPositive(prices)) =>
    (QGe(result.upper, result.middle) /\ QGe(result.middle, result.lower))

\* a short series got the synthetic band, strictly ordered
C5_Witness ==
  /\ Returned("calculateBollingerBands")
  /\ 0 < Len(prices)
  /\ Len(prices) < call.period
  /\ QGt(result.upper, result.middle)
  /\ QGt(result.middle, result.lower)

\* C6: for every period p >= 1 and every series shorter than p, calculateSMA
\* and calculateEMA return the last element, and 0 for the empty series.
C6_ShortSeriesFallback ==
  ((Returned("calculateSMA") \/ Returned("calculateEMA"))
     /\ Len(prices) < call.period) =>
    IF Len(prices) = 0 THEN result = QInt(0)
    ELSE result = QInt(prices[Len(prices)])

\* a moving price history shorter than the period got its last price back
C6_Witness ==
  /\ Returned("calculateEMA")
  /\ 1 < Len(prices)
  /\ Len(prices) < call.period
  /\ prices[1] # prices[Len(prices)]
  /\ result = QInt(prices[Len(prices)])

\* C18: calculateRSI returns exactly 50 whenever prices.length < period + 1,
\* whatever the prices are.
C18_ShortSeriesNeutral ==
  (Returned("calculateRSI") /\ Len(prices) < call.period + 1) =>
    result = QInt(50)

\* a moving series of exactly 14 prices got the neutral value
C18_Witness ==
  /\ Returned("calculateRSI")
  /\ call.period = DefaultRSIPeriod
  /\ Len(prices) = DefaultRSIPeriod
  /\ StrictlyDecreasing(prices)
  /\ result = QInt(50)

NonDecreasing(s) == \A i \in 1..(Len(s) - 1) : s[i] <= s[i + 1]

\* <<avgGain, avgLoss>> at the end of a series longer than the period
RSIAverages(s, period) ==
  RSISmooth(s, period, period + 1,
            RSISeedAverages(RSISeed(s, period, 1, <<QInt(0), QInt(0)>>),
                            period))

\* 100 - 100 / (1 + avgGain)
RSIOfGainAlone(avgGain) ==
  QSub(QInt(100), QDiv(QInt(100), QAdd(QInt(1), avgGain)))

\* what calculateRSI returned agrees with avg = <<avgGain, avgLoss>>
ZeroLossUsesGainAlone(avg) ==
  /\ NonDecreasing(prices) => QIsZero(avg[2])
  /\ QIsZero(avg[2]) => QEq(result, RSIOfGainAlone(avg[1]))
  /\ IsConstant(prices) => QEq(result, QInt(0))

\* C19: when the smoothed average loss is 0 at the end of the series (as for
\* every series that never falls), calculateRSI returns
\* 100 - 100/(1 + avgGain), also for avgGain = 0: a constant series longer
\* than the period yields 0.
C19_ZeroLossUsesGainAlone ==
  (Returned("calculateRSI") /\ Len(prices) > call.period) =>
    ZeroLossUsesGainAlone(RSIAverages(prices, call.period))

\* a series rising by 2 every day has no loss and an average gain of 2: its
\* RSI is 100 - 100/3
C19_Witness ==
  /\ Returned("calculateRSI")
  /\ call.period = DefaultRSIPeriod
  /\ Len(prices) > call.period + 1
  /\ StrictlyIncreasing(prices)
  /\ QEq(result, QRat(200, 3))

\* -1, 0 or 1 as x is negative, zero or positive
Sign(x) == IF QIsZero(x) THEN 0 ELSE IF x.neg THEN -1 ELSE 1

-----------------------------------------------------------------------------
(* The rating engine on chosen inputs (SpecRate): generateAIAnalysis, then *)
(* the prediction fetchStockData builds from its result.                   *)

\* values Math.random() yields, from [0, 1)
Draws == {QRat(0, 1), QRat(1, 2), QRat(99, 100)}

RSIInputs == {QInt(0), QRat(299, 10), QInt(30), QInt(70), QRat(701, 10)}

\* day-over-day changes on both sides of the risk thresholds 2 and 5
ChangePercentInputs ==
  << QRat(-51, 10), QInt(-5), QRat(-21, 10), QInt(-2), QInt(0), QInt(2),
     QRat(21, 10), QInt(5), QRat(51, 10) >>

Steps == {-1, 0, 1}

\* every ordering of the price and the three averages around BasePrice, with
\* every RSI input; the change of the day varies with the ordering
RateInputs ==
  {[data |->
      [currentPrice |-> QInt(BasePrice),
       changePercent |-> ChangePercentInputs[3 * (a + 1) + (b + 1) + 1],
       volume |-> QInt(1000),
       high52Week |-> QInt(BasePrice + 20),
       low52Week |-> QInt(BasePrice - 20)],
    technicalIndicators |->
      [rsi |-> r,
       macd |-> ZeroMACD,
       bollinger |-> [upper  |-> QInt(BasePrice + a + 2),
                      middle |-> QInt(BasePrice + a),
                      lower  |-> QInt(BasePrice + a - 2)],
       sma20 |-> QInt(BasePrice + a),
       sma50 |-> QInt(BasePrice + a + b),
       sma200 |-> QInt(BasePrice + a + b + c),
       volume |-> QInt(1000),
       avgVolume |-> QInt(1000 + 100 * c)]] :
     r \in RSIInputs, a \in Steps, b \in Steps, c \in Steps}

InitRate ==
  /\ pc = "input"
  /\ prices = <<>>
  /\ call = NoCall
  /\ result = NoResult
  /\ stockResponse = NoResponse
  /\ \E input \in RateInputs :
       /\ data = input.data
       /\ technicalIndicators = input.technicalIndicators
  /\ aiAnalysis = NoAnalysis
  /\ prediction = NoPrediction
  /\ random = <<>>
  /\ quote = NoQuote
  /\ AppIdle

\* line 681 (349): const aiAnalysis = generateAIAnalysis(stockData, ...)
GenerateAIAnalysis ==
  /\ pc = "input"
  /\ \E random1 \in Draws, random2 \in Draws :
       /\ aiAnalysis' = generateAIAnalysis(data, technicalIndicators,
                                           random1, random2)
       /\ random' = random \o <<random1, random2>>
  /\ pc' = "analysed"
  /\ UNCHANGED <<prices, libVars, stockResponse, data, technicalIndicators,
                 prediction, quote, appVars>>

\* lines 684-691 (352-359): const prediction = {...}
Predict ==
  /\ pc = "analysed"
  /\ \E random3 \in Draws, random4 \in Draws, random5 \in Draws :
       /\ prediction' = BuildPrediction(data.currentPrice, technicalIndicators,
                                        aiAnalysis, random3, random4, random5)
       /\ random' = random \o <<random3, random4, random5>>
  /\ pc' = "done"
  /\ UNCHANGED <<prices, libVars, stockResponse, data, technicalIndicators,
                 aiAnalysis, quote, appVars>>

NextRate == GenerateAIAnalysis \/ Predict

SpecRate == InitRate /\ [][NextRate]_vars

-----------------------------------------------------------------------------
(* Properties of the rating engine (SpecRate).                             *)

Analysed == pc \in {"analysed", "done"}

\* the contribution of the RSI rule, as the specification words it
RSIContribution(rsi) ==
  IF QLt(rsi, QInt(30)) THEN 20 ELSE IF QGt(rsi, QInt(70)) THEN -20 ELSE 0

\* the contribution of the trend-alignment rule, as the specification words it
TrendContribution(price, sma20, sma50, sma200) ==
  IF QGt(price, sma20) /\ QGt(sma20, sma50) /\ QGt(sma50, sma200) THEN 25
  ELSE IF QLt(price, sma20) /\ QLt(sma20, sma50) /\ QLt(sma50, sma200)
  THEN -25
  ELSE 0

\* C7: technicalScore is 50 plus the RSI contribution plus the trend
\* contribution, unclamped, hence one of 5, 25, 30, 45, 50, 55, 70, 75, 95.
C7_ScoreIsSumOfRules ==
  Analysed =>
    /\ aiAnalysis.technicalScore =
         50 + RSIContribution(technicalIndicators.rsi)
            + TrendContribution(data.currentPrice, technicalIndicators.sma20,
                                technicalIndicators.sma50,
                                technicalIndicators.sma200)
    /\ aiAnalysis.technicalScore \in {5, 25, 30, 45, 50, 55, 70, 75, 95}

\* an overbought instrument in a confirmed downtrend: both rules subtract
C7_Witness ==
  /\ Analysed
  /\ QGt(technicalIndicators.rsi, QInt(70))
  /\ QLt(technicalIndicators.sma20, technicalIndicators.sma50)
  /\ aiAnalysis.technicalScore = 5

\* the rating bands, as the specification words them
RatingBand(score) ==
  {r \in {"Strong Buy", "Buy", "Hold", "Sell", "Strong Sell"} :
     \/ r = "Strong Buy" /\ score >= 80
     \/ r = "Buy" /\ 65 <= score /\ score < 80
     \/ r = "Hold" /\ 35 <= score /\ score < 65
     \/ r = "Sell" /\ 20 <= score /\ score < 35
     \/ r = "Strong Sell" /\ score < 20}

\* C8: every integer technicalScore maps to exactly one rating, the one of
\* its band (lower limits inclusive), and the analysis reports that rating.
C8_RatingTotalSingleValued ==
  /\ \A score \in (-10)..110 : RatingBand(score) = {OverallRating(score)}
  /\ Analysed =>
       RatingBand(aiAnalysis.technicalScore) = {aiAnalysis.overallRating}

\* an oversold instrument without trend alignment is rated Buy at score 70
C8_Witness ==
  /\ Analysed
  /\ aiAnalysis.technicalScore = 70
  /\ aiAnalysis.overallRating = "Buy"

\* C9: confidence is technicalScore clamped to [20,95], an integer in
\* [20,95], and prediction.confidence equals aiAnalysis.confidence.
C9_ConfidenceClamped ==
  /\ Analysed =>
       /\ aiAnalysis.confidence =
            (IF aiAnalysis.technicalScore < 20 THEN 20
             ELSE IF aiAnalysis.technicalScore > 95 THEN 95
             ELSE aiAnalysis.technicalScore)
       /\ aiAnalysis.confidence \in 20..95
  /\ pc = "done" => prediction.confidence = aiAnalysis.confidence

\* a score of 5 was raised to the floor, and the prediction carries it
C9_Witness ==
  /\ pc = "done"
  /\ aiAnalysis.technicalScore = 5
  /\ aiAnalysis.confidence = 20
  /\ prediction.confidence = 20

\* C11: whenever currentPrice > sma20 > sma50 > sma200 and RSI > 70,
\* technicalScore is exactly 55 (50 - 20 + 25) and overallRating is Hold.
C11_OverboughtUptrendHolds ==
  (Analysed
     /\ QGt(data.currentPrice, technicalIndicators.sma20)
     /\ QGt(technicalIndicators.sma20, technicalIndicators.sma50)
     /\ QGt(technicalIndicators.sma50, technicalIndicators.sma200)
     /\ QGt(technicalIndicators.rsi, QInt(70))) =>
    (aiAnalysis.technicalScore = 55 /\ aiAnalysis.overallRating = "Hold")

\* an overbought instrument in a confirmed uptrend was rated Hold at 55
C11_Witness ==
  /\ Analysed
  /\ QGt(data.currentPrice, technicalIndicators.sma20)
  /\ QGt(technicalIndicators.sma20, technicalIndicators.sma50)
  /\ QGt(technicalIndicators.sma50, technicalIndicators.sma200)
  /\ QGt(technicalIndicators.rsi, QInt(70))
  /\ aiAnalysis.technicalScore = 55
  /\ aiAnalysis.overallRating = "Hold"

\* the trend of a sentiment score, as the specification words it
TrendOfScore(score) ==
  IF score >= 60 THEN "bullish" ELSE IF score <= 40 THEN "bearish" ELSE "neutral"

\* C12: prediction.trend is a function of sentiment.score only (bullish if
\* score >= 60, bearish if score <= 40, neutral otherwise), whatever the trend
\* label of the key-factors text is; the two labels can differ.
C12_PredictionTrendFromScore ==
  pc = "done" =>
    /\ prediction.trend = TrendOfScore(aiAnalysis.sentiment.score)
    /\ aiAnalysis.keyFactors[3].trend \in {"bullish", "bearish", "neutral"}
    /\ (aiAnalysis.sentiment.score = 55) =>
         (aiAnalysis.keyFactors[3].trend = "bullish"
            /\ prediction.trend = "neutral")

\* the key factors say bullish while the prediction says neutral
C12_Witness ==
  /\ pc = "done"
  /\ aiAnalysis.keyFactors[3].trend = "bullish"
  /\ prediction.trend = "neutral"

\* the sentiment bands, as the specification words them
LabelBand(score) ==
  {l \in {"Very Positive", "Positive", "Neutral", "Negative", "Very Negative"} :
     \/ l = "Very Positive" /\ score >= 80
     \/ l = "Positive" /\ 60 <= score /\ score < 80
     \/ l = "Neutral" /\ 40 <= score /\ score < 60
     \/ l = "Negative" /\ 20 <= score /\ score < 40
     \/ l = "Very Negative" /\ score < 20}

\* C13: sentiment.score equals technicalScore, and every score gets exactly
\* one label, the one of its band (lower limits inclusive).
C13_SentimentLabelBands ==
  /\ \A score \in (-10)..110 : LabelBand(score) = {SentimentLabel(score)}
  /\ Analysed =>
       /\ aiAnalysis.sentiment.score = aiAnalysis.technicalScore
       /\ LabelBand(aiAnalysis.sentiment.score) = {aiAnalysis.sentiment.label}

\* a score of 30 was labelled Negative
C13_Witness ==
  /\ Analysed
  /\ aiAnalysis.technicalScore = 30
  /\ aiAnalysis.sentiment.score = 30
  /\ aiAnalysis.sentiment.label = "Negative"

\* the risk bands, as the specification words them
RiskBand(changePercent) ==
  {l \in {"High", "Medium", "Low"} :
     \/ l = "High" /\ QGt(QAbs(changePercent), QInt(5))
     \/ l = "Medium" /\ QGt(QAbs(changePercent), QInt(2))
                     /\ QLe(QAbs(changePercent), QInt(5))
     \/ l = "Low" /\ QLe(QAbs(changePercent), QInt(2))}

\* C14: riskLevel is High when |changePercent| > 5, Medium when
\* 2 < |changePercent| <= 5 and Low when |changePercent| <= 2; every
\* changePercent gets exactly one level.
C14_RiskLevelBands ==
  Analysed => RiskBand(data.changePercent) = {aiAnalysis.riskLevel}

\* a fall of exactly 5 percent is still Medium
C14_Witness ==
  /\ Analysed
  /\ QEq(data.changePercent, QInt(-5))
  /\ aiAnalysis.riskLevel = "Medium"

\* every draw taken so far was 0.5
AllDrawsHalf == \A i \in 1..Len(random) : QEq(random[i], QRat(1, 2))

\* a second evaluation on the inputs and draws of the first gives its results
Reproducible ==
  /\ aiAnalysis = generateAIAnalysis(data, technicalIndicators,
                                     random[1], random[2])
  /\ prediction = BuildPrediction(data.currentPrice, technicalIndicators,
                                  aiAnalysis, random[3], random[4], random[5])

\* the prediction prices without perturbation, as the specification words them
UnperturbedPrices ==
  /\ QEq(prediction.nextDay, data.currentPrice)
  /\ QEq(prediction.nextWeek,
         QMul(data.currentPrice,
              QAdd(QInt(1), QDiv(QSub(technicalIndicators.rsi, QInt(50)),
                                 QInt(1000)))))
  /\ QEq(prediction.nextMonth,
         QMul(data.currentPrice,
              QAdd(QInt(1), QDiv(QSub(technicalIndicators.rsi, QInt(50)),
                                 QInt(500)))))

\* round(score * weight + noise)
RoundedScore(score, weight, noise) ==
  QToInt(MathRound(QAdd(QMul(QInt(score), weight), noise)))

\* C15 as stated: with every draw fixed to 0.5 the rating and the prediction
\* are reproducible and unperturbed: nextDay = price, nextWeek = price * (1 +
\* (RSI - 50)/1000), nextMonth = price * (1 + (RSI - 50)/500), and
\* fundamentalScore and marketScore carry no noise contribution.
C15_HalfDrawsNoNoise ==
  (pc = "done" /\ AllDrawsHalf) =>
    /\ Reproducible
    /\ UnperturbedPrices
    /\ aiAnalysis.fundamentalScore =
         RoundedScore(aiAnalysis.sentiment.score, QRat(9, 10), QInt(0))
    /\ aiAnalysis.marketScore =
         RoundedScore(aiAnalysis.sentiment.score, QRat(11, 10), QInt(0))

\* C15 as amended: with every draw fixed to 0.5 the rating and the prediction
\* are reproducible and the three prediction prices are unperturbed, while
\* fundamentalScore = round(0.9 * score + 10) and marketScore =
\* round(1.1 * score + 7.5): the noise terms are 20 and 15 times the draw.
C15_HalfDrawsShiftScores ==
  (pc = "done" /\ AllDrawsHalf) =>
    /\ Reproducible
    /\ UnperturbedPrices
    /\ aiAnalysis.fundamentalScore =
         RoundedScore(aiAnalysis.sentiment.score, QRat(9, 10), QInt(10))
    /\ aiAnalysis.marketScore =
         RoundedScore(aiAnalysis.sentiment.score, QRat(11, 10), QRat(15, 2))

\* five draws of 0.5 on a score of 50: the scores come out as 55 and 63
C15_Witness ==
  /\ pc = "done"
  /\ Len(random) = 5
  /\ AllDrawsHalf
  /\ aiAnalysis.technicalScore = 50
  /\ aiAnalysis.fundamentalScore = 55
  /\ aiAnalysis.marketScore = 63
  /\ QEq(prediction.nextDay, data.currentPrice)
  /\ ~QEq(prediction.nextWeek, data.currentPrice)

\* the scale of the analysis breakdown: "{score}/100" and a progress bar
ScoreScale == 0..100

\* C30: for every reachable technicalScore and every draw, technicalScore,
\* fundamentalScore and marketScore are integers of the 0..100 scale on
\* which the analysis view displays them.
C30_ScoresWithinScale ==
  Analysed =>
    /\ aiAnalysis.technicalScore \in ScoreScale
    /\ aiAnalysis.fundamentalScore \in ScoreScale
    /\ aiAnalysis.marketScore \in ScoreScale

\* the trend label of the key factors and the trend of the prediction
TrendLabels == {aiAnalysis.keyFactors[3].trend, prediction.trend}

\* the RSI rule and the trend-alignment rule move the score in opposite
\* directions
RulesOpposed ==
  RSIContribution(technicalIndicators.rsi)
    * TrendContribution(data.currentPrice, technicalIndicators.sma20,
                        technicalIndicators.sma50,
                        technicalIndicators.sma200) < 0

\* C28: the trend label in the key factors and prediction.trend are never
\* one bullish and the other bearish; they differ only when the RSI rule
\* and the trend-alignment rule pull in opposite directions, and then
\* prediction.trend is neutral.
C28_TrendLabelsNeverOpposite ==
  pc = "done" =>
    /\ TrendLabels # {"bullish", "bearish"}
    /\ aiAnalysis.keyFactors[3].trend # prediction.trend
         => (RulesOpposed /\ prediction.trend = "neutral")

\* an oversold instrument in a confirmed downtrend: the key factors say
\* bearish, the prediction neutral
C28_Witness ==
  /\ pc = "done"
  /\ QLt(technicalIndicators.rsi, QInt(30))
  /\ aiAnalysis.technicalScore = 45
  /\ aiAnalysis.keyFactors[3].trend = "bearish"
  /\ prediction.trend = "neutral"

-----------------------------------------------------------------------------
(* fetchStockData of the edge-function-backed hook (SpecFetch): the body   *)
(* of the try block for a response that carries a stock record.            *)

\* histories the edge function delivers: at most MaxLen samples
FetchPatterns ==
  {<<-2, -1>>, <<0, 0>>, <<1, 2>>, <<3, -1>>, <<-2, 1>>, <<3, 3>>}

RECURSIVE MaxOf(_, _)
MaxOf(s, i) == IF i = 1 THEN s[1] ELSE Max(s[i], MaxOf(s, i - 1))

RECURSIVE MinOf(_, _)
MinOf(s, i) == IF i = 1 THEN s[1] ELSE Min(s[i], MinOf(s, i - 1))

\* a response as the edge function builds it from the closes of a history
ResponseOf(closes) ==
  [currentPrice  |-> QInt(BasePrice),
   changePercent |-> QInt(1),
   volume        |-> QInt(1000),
   high52Week    |-> IF Len(closes) > 0 THEN QInt(MaxOf(closes, Len(closes)))
                     ELSE QMul(QInt(BasePrice), QRat(12, 10)),
   low52Week     |-> IF Len(closes) > 0 THEN QInt(MinOf(closes, Len(closes)))
                     ELSE QMul(QInt(BasePrice), QRat(8, 10)),
   historicalData |-> [i \in 1..Len(closes) |->
                         [price |-> closes[i], volume |-> 900 + 10 * i]]]

Responses ==
  {ResponseOf(SeriesOf(pat, len)) : pat \in FetchPatterns, len \in 0..MaxLen}

InitFetch ==
  /\ pc = "response"
  /\ prices = <<>>
  /\ call = NoCall
  /\ result = NoResult
  /\ stockResponse \in Responses
  /\ data = NoData
  /\ technicalIndicators = NoIndicators
  /\ aiAnalysis = NoAnalysis
  /\ prediction = NoPrediction
  /\ random = <<>>
  /\ quote = NoQuote
  /\ AppIdle

DefaultAvgVolume == 1000000

\* lines 643-645
AverageVolume(volumes, volume) ==
  IF Len(volumes) > 0
  THEN QDiv(SumFrom(SliceLast(volumes, 20), 0, QInt(0)),
            QInt(Min(20, Len(volumes))))
  ELSE IF QIsZero(volume) THEN QInt(DefaultAvgVolume) ELSE volume

\* lines 647-664
TechnicalIndicators(closes, volumes, volume) ==
  [rsi       |-> calculateRSI(closes, DefaultRSIPeriod),
   macd      |-> calculateMACD(closes),
   bollinger |-> calculateBollingerBands(closes, DefaultBollingerPeriod,
                                         QInt(DefaultBollingerMultiplier)),
   sma20     |-> calculateSMA(closes, 20),
   sma50     |-> calculateSMA(closes, 50),
   sma200    |-> calculateSMA(closes, 200),
   volume    |-> volume,
   avgVolume |-> AverageVolume(volumes, volume)]

\* ComputeIndicators with an indicator function that reverses the closes it
\* is given in place
ComputeIndicatorsReversing ==
  /\ pc = "response"
  /\ LET historicalData == stockResponse.historicalData
         closes  == [i \in 1..Len(historicalData) |-> historicalData[i].price]
         volumes == [i \in 1..Len(historicalData) |-> historicalData[i].volume]
     IN  /\ prices' = [i \in 1..Len(closes) |-> closes[Len(closes) + 1 - i]]
         /\ technicalIndicators' =
              TechnicalIndicators(closes, volumes, stockResponse.volume)
         /\ data' = [currentPrice  |-> stockResponse.currentPrice,
                     changePercent |-> stockResponse.changePercent,
                     volume        |-> stockResponse.volume,
                     high52Week    |-> stockResponse.high52Week,
                     low52Week     |-> stockResponse.low52Week]
  /\ pc' = "input"
  /\ UNCHANGED <<libVars, stockResponse, aiAnalysis, prediction, random,
                 quote, appVars>>

\* lines 625-678: the closes and volumes of the response, the indicators
\* computed from them, and the stockData record; prices is the array of
\* closes as the indicator functions leave it
ComputeIndicators ==
  /\ pc = "response"
  /\ LET historicalData == stockResponse.historicalData
         closes  == [i \in 1..Len(historicalData) |-> historicalData[i].price]
         volumes == [i \in 1..Len(historicalData) |-> historicalData[i].volume]
     IN  /\ prices' = closes
         /\ technicalIndicators' =
              TechnicalIndicators(closes, volumes, stockResponse.volume)
         /\ data' = [currentPrice  |-> stockResponse.currentPrice,
                     changePercent |-> stockResponse.changePercent,
                     volume        |-> stockResponse.volume,
                     high52Week    |-> stockResponse.high52Week,
                     low52Week     |-> stockResponse.low52Week]
  /\ pc' = "input"
  /\ UNCHANGED <<libVars, stockResponse, aiAnalysis, prediction, random,
                 quote, appVars>>

NextFetch == ComputeIndicators \/ GenerateAIAnalysis \/ Predict

SpecFetch == InitFetch /\ [][NextFetch]_vars

-----------------------------------------------------------------------------
(* Properties of fetchStockData (SpecFetch).                               *)

\* C10 as stated: for a 30-point series the trend-alignment rule does not
\* fire, technicalScore is 50 plus or minus the RSI contribution, and
\* overallRating is Hold.
C10_ThirtyPointsHold ==
  (Analysed /\ Len(prices) = 30) =>
    /\ TrendContribution(data.currentPrice, technicalIndicators.sma20,
                         technicalIndicators.sma50,
                         technicalIndicators.sma200) = 0
    /\ aiAnalysis.technicalScore =
         50 + RSIContribution(technicalIndicators.rsi)
    /\ aiAnalysis.overallRating = "Hold"

\* C10 as amended: for a 30-point series the trend-alignment rule does not
\* fire and technicalScore is 50 plus the RSI contribution; overallRating is
\* Hold when 30 <= RSI <= 70, Buy when RSI < 30 and Sell when RSI > 70.
C10_ThirtyPointsRSIOnly ==
  (Analysed /\ Len(prices) = 30) =>
    /\ TrendContribution(data.currentPrice, technicalIndicators.sma20,
                         technicalIndicators.sma50,
                         technicalIndicators.sma200) = 0
    /\ QEq(technicalIndicators.sma50, technicalIndicators.sma200)
    /\ aiAnalysis.technicalScore =
         50 + RSIContribution(technicalIndicators.rsi)
    /\ aiAnalysis.overallRating =
         (IF QLt(technicalIndicators.rsi, QInt(30)) THEN "Buy"
          ELSE IF QGt(technicalIndicators.rsi, QInt(70)) THEN "Sell"
          ELSE "Hold")

\* a 30-point history with the price above its 20-day average and a neutral
\* RSI was rated Hold at score 50
C10_Witness ==
  /\ Analysed
  /\ Len(prices) = 30
  /\ QGt(data.currentPrice, technicalIndicators.sma20)
  /\ QGt(technicalIndicators.rsi, QInt(30))
  /\ QLt(technicalIndicators.rsi, QInt(50))
  /\ aiAnalysis.technicalScore = 50
  /\ aiAnalysis.overallRating = "Hold"

\* C27: for every series with fewer than 50 closes, sma50 and sma200 both
\* equal the last close (0 when there is no close), the trend-alignment rule
\* does not fire, technicalScore is one of 30, 50, 70, and overallRating is
\* neither Strong Buy nor Strong Sell.
C27_ShortHistoryNoAlignment ==
  (Analysed /\ Len(prices) < 50) =>
    /\ QEq(technicalIndicators.sma50,
           IF Len(prices) = 0 THEN QInt(0) ELSE QInt(prices[Len(prices)]))
    /\ QEq(technicalIndicators.sma200,
           IF Len(prices) = 0 THEN QInt(0) ELSE QInt(prices[Len(prices)]))
    /\ TrendContribution(data.currentPrice, technicalIndicators.sma20,
                         technicalIndicators.sma50,
                         technicalIndicators.sma200) = 0
    /\ aiAnalysis.technicalScore \in {30, 50, 70}
    /\ aiAnalysis.overallRating \notin {"Strong Buy", "Strong Sell"}

\* a falling 30-point history, oversold and below its 20-day average, was
\* rated Buy at score 70
C27_Witness ==
  /\ Analysed
  /\ Len(prices) = 30
  /\ QLt(technicalIndicators.rsi, QInt(30))
  /\ ~QEq(technicalIndicators.sma20, technicalIndicators.sma50)
  /\ QEq(technicalIndicators.sma50, QInt(prices[30]))
  /\ aiAnalysis.technicalScore = 70
  /\ aiAnalysis.overallRating = "Buy"

-----------------------------------------------------------------------------
(* The history Yahoo Finance answers with, as the edge function (SpecHistory, *)
(* ServeStock, then ComputeIndicators of the hook that calls it) and the     *)
(* first version of the hook (FetchDirect) process it.  A price or volume    *)
(* of the answer is a machine integer; 0 stands for a missing (null) one.    *)

\* timestamps.slice(-30): the days shown
DisplayDays == 30

\* closes.slice(-252): the trading days of a year
YearDays == 252

IsPositive(x) == x > 0

\* FilterPositive keeping every sample that is not negative
FilterNonNegative(xs) == SelectSeq(xs, LAMBDA x : x >= 0)

\* .filter(price => price && price > 0)
FilterPositive(xs) == SelectSeq(xs, IsPositive)

\* xs[i] || default, for an array index i of the source
ElementOr(xs, i, default) ==
  IF i < 0 \/ i >= Len(xs) THEN default
  ELSE IF xs[i + 1] = 0 THEN default
  ELSE xs[i + 1]

HasPositivePrice(item) == item.price > 0

\* lines 119-123 of the edge function (276-280 of the hook): the last 30
\* timestamps, each with the close and volume found 30 - index places from
\* the end of the filtered arrays
HistoricalData(timestamps, closes, volumes, currentPrice) ==
  SelectSeq(
    [index \in 1..Len(SliceLast(timestamps, DisplayDays)) |->
       [date   |-> SliceLast(timestamps, DisplayDays)[index],
        price  |-> ElementOr(closes, Len(closes) - DisplayDays + index - 1,
                             currentPrice),
        volume |-> ElementOr(volumes, Len(volumes) - DisplayDays + index - 1,
                             0)]],
    HasPositivePrice)

\* Infinity and -Infinity: a number with denominator zero
Infinity(neg) == [neg |-> neg, n |-> <<1>>, d |-> <<>>]

IsFinite(x) == x.d # <<>>

\* x || y on numbers: 0 and NaN are falsy
OrElse(x, y) == IF x.n = <<>> THEN y ELSE x

\* Math.max(...xs): -Infinity for no argument
MathMax(xs) ==
  IF Len(xs) = 0 THEN Infinity(TRUE) ELSE QInt(MaxOf(xs, Len(xs)))

\* Math.min(...xs): Infinity for no argument
MathMin(xs) ==
  IF Len(xs) = 0 THEN Infinity(FALSE) ELSE QInt(MinOf(xs, Len(xs)))

\* lines 283-284 of the hook
YearRange(closes, currentPrice) ==
  [high |-> OrElse(MathMax(SliceLast(closes, YearDays)),
                   QMul(QInt(currentPrice), QRat(12, 10))),
   low  |-> OrElse(MathMin(SliceLast(closes, YearDays)),
                   QMul(QInt(currentPrice), QRat(8, 10)))]

\* lines 105-106 and 126-129 of the edge function: the defaults stay unless
\* there is a close
YearRangeGuarded(closes, currentPrice) ==
  IF Len(closes) > 0 THEN YearRange(closes, currentPrice)
  ELSE [high |-> QMul(QInt(currentPrice), QRat(12, 10)),
        low  |-> QMul(QInt(currentPrice), QRat(8, 10))]

\* meta.regularMarketPrice || meta.previousClose || 0
CurrentPrice(meta) ==
  IF meta.regularMarketPrice # 0 THEN meta.regularMarketPrice
  ELSE meta.previousClose

\* meta.previousClose || currentPrice
PreviousClose(meta) ==
  IF meta.previousClose # 0 THEN meta.previousClose ELSE CurrentPrice(meta)

\* previousClose ? (change / previousClose) * 100 : 0
ChangePercent(meta) ==
  IF PreviousClose(meta) = 0 THEN QInt(0)
  ELSE QMul(QDiv(QInt(CurrentPrice(meta) - PreviousClose(meta)),
                 QInt(PreviousClose(meta))),
            QInt(100))

\* longest history Yahoo Finance answers with
MaxRaw == 31

\* longest of the short histories
MaxShortRaw == 2

RawLengths == (0..MaxShortRaw) \cup ((DisplayDays - 1)..MaxRaw)

\* the closes of a history: all present; all missing; every third missing;
\* a negative first one; only the last present
RawPatterns == 1..5

RawClose(pat, len) ==
  [i \in 1..len |->
     CASE pat = 1 -> BasePrice + i
       [] pat = 2 -> 0
       [] pat = 3 -> IF i % 3 = 0 THEN 0 ELSE BasePrice + i
       [] pat = 4 -> IF i = 1 THEN -5 ELSE BasePrice + i
       [] pat = 5 -> IF i = len THEN BasePrice ELSE 0]

\* the volumes of a history: every fourth missing
RawVolume(pat, len) ==
  [i \in 1..len |-> IF (i + pat) % 4 = 0 THEN 0 ELSE 1000 + i]

\* result.meta of the quote: complete; without a market price; empty
Metas ==
  {[regularMarketPrice |-> BasePrice, previousClose |-> BasePrice - 20,
    regularMarketVolume |-> 5000],
   [regularMarketPrice |-> 0, previousClose |-> BasePrice - 20,
    regularMarketVolume |-> 0],
   [regularMarketPrice |-> 0, previousClose |-> 0,
    regularMarketVolume |-> 0]}

QuoteOf(meta, pat, len) ==
  [kind      |-> "chart",
   meta      |-> meta,
   timestamp |-> [i \in 1..len |-> i],
   close     |-> RawClose(pat, len),
   volume    |-> RawVolume(pat, len)]

Quotes ==
  {QuoteOf(meta, pat, len) :
     meta \in Metas, pat \in RawPatterns, len \in RawLengths}

InitHistory ==
  /\ pc = "quote"
  /\ prices = <<>>
  /\ call = NoCall
  /\ result = NoResult
  /\ stockResponse = NoResponse
  /\ data = NoData
  /\ technicalIndicators = NoIndicators
  /\ aiAnalysis = NoAnalysis
  /\ prediction = NoPrediction
  /\ random = <<>>
  /\ quote \in Quotes
  /\ AppIdle

\* lines 88-168 of the edge function, both fetches answered
StockDataOf(meta, timestamps, closes, volumes) ==
  [currentPrice   |-> QInt(CurrentPrice(meta)),
   changePercent  |-> ChangePercent(meta),
   volume         |-> QInt(meta.regularMarketVolume),
   high52Week     |-> YearRangeGuarded(closes, CurrentPrice(meta)).high,
   low52Week      |-> YearRangeGuarded(closes, CurrentPrice(meta)).low,
   historicalData |->
     HistoricalData(timestamps, closes, volumes, CurrentPrice(meta))]

ServeStock ==
  /\ pc = "quote"
  /\ stockResponse' =
       StockDataOf(quote.meta, quote.timestamp, FilterPositive(quote.close),
                   FilterPositive(quote.volume))
  /\ pc' = "response"
  /\ UNCHANGED <<libVars, prices, data, technicalIndicators, aiAnalysis,
                 prediction, random, quote, appVars>>

\* lines 248-346 of the first version of the hook, both fetches answered
DirectStockData(meta, timestamps, closes, volumes) ==
  [currentPrice   |-> QInt(CurrentPrice(meta)),
   changePercent  |-> ChangePercent(meta),
   volume         |-> QInt(meta.regularMarketVolume),
   high52Week     |-> YearRange(closes, CurrentPrice(meta)).high,
   low52Week      |-> YearRange(closes, CurrentPrice(meta)).low,
   historicalData |->
     HistoricalData(timestamps, closes, volumes, CurrentPrice(meta))]

FetchDirect ==
  /\ pc = "quote"
  /\ prices' = FilterPositive(quote.close)
  /\ technicalIndicators' =
       TechnicalIndicators(FilterPositive(quote.close),
                           FilterPositive(quote.volume),
                           QInt(quote.meta.regularMarketVolume))
  /\ data' =
       DirectStockData(quote.meta, quote.timestamp,
                       FilterPositive(quote.close),
                       FilterPositive(quote.volume))
  /\ pc' = "direct"
  /\ UNCHANGED <<libVars, stockResponse, aiAnalysis, prediction, random,
                 quote, appVars>>

NextHistory == ServeStock \/ FetchDirect \/ ComputeIndicators

SpecHistory == InitHistory /\ [][NextHistory]_vars

-----------------------------------------------------------------------------
(* Properties of the validation of a history (SpecHistory).                *)

\* the samples of xs from position i on that are above zero, in their order
RECURSIVE KeptInOrder(_, _)
KeptInOrder(xs, i) ==
  IF i > Len(xs) THEN <<>>
  ELSE IF xs[i] > 0 THEN <<xs[i]>> \o KeptInOrder(xs, i + 1)
  ELSE KeptInOrder(xs, i + 1)

AllPricesPositive(historicalData) ==
  \A i \in 1..Len(historicalData) : historicalData[i].price > 0

\* C16: validation keeps exactly the samples whose price is above zero, in
\* their original order, so every close the indicators are computed from and
\* every price of historicalData is above zero.
C16_ValidatedPricesPositive ==
  /\ pc # "quote" =>
       FilterPositive(quote.close) = KeptInOrder(quote.close, 1)
  /\ pc = "direct" =>
       /\ prices = KeptInOrder(quote.close, 1)
       /\ AllPositive(prices)
       /\ AllPricesPositive(data.historicalData)
  /\ pc \in {"response", "input"} =>
       AllPricesPositive(stockResponse.historicalData)
  /\ pc = "input" => AllPositive(prices)

\* a history that lost samples to the validation and days to the filter of
\* historicalData
C16_Witness ==
  /\ pc = "direct"
  /\ Len(prices) > 0
  /\ Len(prices) < Len(quote.close)
  /\ Len(data.historicalData) > 0
  /\ Len(data.historicalData) < Min(DisplayDays, Len(quote.timestamp))

\* the close at the same trailing position as the day of an entry: with k
\* the number of days shown, the close as far from the end of the validated
\* closes as the day is from the end of the timestamps; currentPrice when
\* the validated closes do not reach that far back
TrailingClose(date) ==
  IF Len(FilterPositive(quote.close)) - Len(quote.timestamp) + date >= 1
  THEN FilterPositive(quote.close)[Len(FilterPositive(quote.close))
                                    - Len(quote.timestamp) + date]
  ELSE CurrentPrice(quote.meta)

CarriesTrailingCloses(historicalData) ==
  \A i \in 1..Len(historicalData) :
    historicalData[i].price = TrailingClose(historicalData[i].date)

\* C29: for every history length, also below 30 samples, each entry of
\* historicalData carries the validated close at the same trailing position
\* as its day, and currentPrice only when no close exists for that position.
C29_EntriesCarryTrailingCloses ==
  /\ pc = "response" => CarriesTrailingCloses(stockResponse.historicalData)
  /\ pc = "direct" => CarriesTrailingCloses(data.historicalData)

FiniteIndicators(ti) ==
  /\ IsFinite(ti.rsi)
  /\ IsFinite(ti.macd.value)
  /\ IsFinite(ti.macd.signal)
  /\ IsFinite(ti.macd.histogram)
  /\ IsFinite(ti.bollinger.upper)
  /\ IsFinite(ti.bollinger.middle)
  /\ IsFinite(ti.bollinger.lower)
  /\ IsFinite(ti.sma20)
  /\ IsFinite(ti.sma50)
  /\ IsFinite(ti.sma200)

FiniteOrderedRange(stockData) ==
  /\ IsFinite(stockData.high52Week)
  /\ IsFinite(stockData.low52Week)
  /\ QGe(stockData.high52Week, stockData.low52Week)

DefaultRange(stockData) ==
  /\ stockData.high52Week = QMul(stockData.currentPrice, QRat(12, 10))
  /\ stockData.low52Week = QMul(stockData.currentPrice, QRat(8, 10))

\* C17 as stated: when validation leaves no close or one, RSI, MACD, the
\* Bollinger bands and the moving averages are finite, and high52Week and
\* low52Week are finite with high52Week >= low52Week, being
\* currentPrice * 1.2 and currentPrice * 0.8 when no close is left.  The
\* first version of the hook takes Math.max and Math.min of no close without
\* a guard: high52Week is -Infinity and low52Week is Infinity.
C17_SparseHistoryFinite ==
  (pc \in {"input", "direct"} /\ Len(FilterPositive(quote.close)) <= 1) =>
     /\ FiniteIndicators(technicalIndicators)
     /\ FiniteOrderedRange(data)
     /\ Len(FilterPositive(quote.close)) = 0 => DefaultRange(data)

-----------------------------------------------------------------------------
(* The exponential moving average as a recurrence (SpecLib).               *)

\* e_i from e_(i-1)
EMANext(s, k, i, previous) ==
  IF Evaluated(previous)
  THEN QAdd(QMul(QInt(s[i + 1]), k), QMul(previous, QSub(QInt(1), k)))
  ELSE previous

\* e_0 = prices[0], e_i = prices[i] * k + e_(i-1) * (1 - k)
RECURSIVE EMARecurrence(_, _, _)
EMARecurrence(s, k, i) ==
  IF i = 0 THEN QInt(s[1])
  ELSE EMANext(s, k, i, EMARecurrence(s, k, i - 1))

WithinSeries(s, x) ==
  /\ QLe(QInt(MinOf(s, Len(s))), x)
  /\ QLe(x, QInt(MaxOf(s, Len(s))))

\* C21: for a series at least period long, calculateEMA is the recurrence
\* e_0 = prices[0], e_i = prices[i] * k + e_(i-1) * (1 - k), k = 2 / (period
\* + 1), taken over the entire series, and lies between the smallest and the
\* largest price of the series.
C21_EMAIsRecurrence ==
  (Returned("calculateEMA") /\ Len(prices) >= call.period) =>
     /\ QEq(result,
            EMARecurrence(prices, QRat(2, call.period + 1), Len(prices) - 1))
     /\ WithinSeries(prices, result)

\* a series longer than the period whose average over the whole series is
\* not the one over its trailing window
C21_Witness ==
  /\ Returned("calculateEMA")
  /\ Len(prices) > call.period
  /\ ~QEq(result, calculateEMAWindowed(prices, call.period))
  /\ QLt(QInt(MinOf(prices, Len(prices))), result)
  /\ QLt(result, QInt(MaxOf(prices, Len(prices))))

-----------------------------------------------------------------------------
(* Inputs of the indicator functions and of generateAIAnalysis (SpecFetch). *)

\* historicalData.map(d => d.price)
ClosesOf(historicalData) ==
  [i \in 1..Len(historicalData) |-> historicalData[i].price]

\* C22: the indicator functions and generateAIAnalysis leave the price
\* series and the records they receive unchanged: after the calls the array
\* of closes has the same length and the same elements in the same order,
\* and stockData and technicalIndicators are what they were.
C22_InputsUnchanged ==
  [][/\ (pc = "response" /\ pc' = "input") =>
          /\ prices' = ClosesOf(stockResponse.historicalData)
          /\ stockResponse' = stockResponse
     /\ (pc = "input" /\ pc' = "analysed") =>
          /\ prices' = prices
          /\ data' = data
          /\ technicalIndicators' = technicalIndicators]_vars

\* a history that is not its own reverse, after the indicator functions and
\* generateAIAnalysis have run on it
C22_Witness ==
  /\ pc = "analysed"
  /\ Len(prices) >= MACDMinLength
  /\ prices[1] # prices[Len(prices)]
  /\ prices = ClosesOf(stockResponse.historicalData)

-----------------------------------------------------------------------------
(* generateFallbackStockData (lines 708-787 of the hook).                  *)

\* 100 + Math.random() * 400
FallbackBasePrice(draw) == QAdd(QInt(100), QMul(draw, QInt(400)))

\* Math.round(x * 100) / 100
RoundToCents(x) == QDiv(MathRound(QMul(x, QInt(100))), QInt(100))

\* price += (Math.random() - 0.5) * price * 0.03
FallbackStep(price, draw) ==
  QReduce(QAdd(price,
               QMul(QMul(QSub(draw, QRat(1, 2)), price), QRat(3, 100))))

\* Math.floor(Math.random() * 10000000) + 1000000
FallbackVolume(draw) ==
  QToInt(QFloor(QMul(draw, QInt(10000000)))) + 1000000

RECURSIVE FallbackHistory(_, _, _, _)
\* the loop of lines 719-732: two draws a day, the price walk and the volume
FallbackHistory(price, draws, day, history) ==
  IF Evaluated(price) /\ Len(history) >= 0 /\ day <= Len(draws) \div 2
  THEN FallbackHistory(FallbackStep(price, draws[2 * day - 1]), draws,
         day + 1,
         Append(history,
           [price  |-> RoundToCents(FallbackStep(price, draws[2 * day - 1])),
            volume |-> FallbackVolume(draws[2 * day])]))
  ELSE history

\* lines 734-735: the closes of a history whose prices are whole numbers
FallbackCloses(history) ==
  [i \in 1..Len(history) |-> QToInt(history[i].price)]

FallbackVolumes(history) == [i \in 1..Len(history) |-> history[i].volume]

\* lines 738-754
FallbackIndicators(closes, volumes) ==
  [rsi       |-> calculateRSI(closes, DefaultRSIPeriod),
   macd      |-> calculateMACD(closes),
   bollinger |-> calculateBollingerBands(closes, DefaultBollingerPeriod,
                                         QInt(DefaultBollingerMultiplier)),
   sma20     |-> calculateSMA(closes, 20),
   sma50     |-> calculateSMA(closes, 50),
   sma200    |-> calculateSMA(closes, 200),
   volume    |-> QInt(volumes[Len(volumes)]),
   avgVolume |-> QDiv(SumFrom(volumes, 0, QInt(0)), QInt(Len(volumes)))]

\* lines 710-712 and 756-768
FallbackData(basePrice, change, volumes) ==
  [currentPrice  |-> RoundToCents(basePrice),
   changePercent |-> RoundToCents(QMul(QDiv(change, basePrice), QInt(100))),
   volume        |-> QInt(volumes[Len(volumes)]),
   high52Week    |-> RoundToCents(QMul(basePrice, QRat(13, 10))),
   low52Week     |-> RoundToCents(QMul(basePrice, QRat(7, 10)))]

\* (Math.random() - 0.5) * 10
FallbackChange(draw) == QMul(QSub(draw, QRat(1, 2)), QInt(10))

-----------------------------------------------------------------------------
(* The stock query of the edge-function-backed hook (SpecQuery): useQuery  *)
(* runs fetchStockData on the answer of the edge function.                 *)

\* the draw that moves a price of the fallback history by delta
WalkDraw(price, delta) == QAdd(QRat(1, 2), QRat(100 * delta, 3 * price))

\* the draws of one run of generateFallbackStockData, in the order they are
\* taken: the base price (100 + 400 * base), the change, a price walk that
\* follows pat and a volume for each of the 30 days, the market capital
FallbackDrawsOf(base, change, pat, volume, cap) ==
  <<QRat(base, 2), change>>
    \o [k \in 1..(2 * DisplayDays) |->
         IF k % 2 = 1
         THEN WalkDraw(100 + 200 * base + Drift(pat, (k - 1) \div 2),
                       Drift(pat, (k + 1) \div 2)
                         - Drift(pat, (k - 1) \div 2))
         ELSE volume]
    \o <<cap>>

FallbackDraws ==
  {FallbackDrawsOf(0, QRat(0, 1), <<1, 0>>, QRat(0, 1), QRat(0, 1)),
   FallbackDrawsOf(1, QRat(99, 100), <<-1, 1>>, QRat(1, 2), QRat(99, 100)),
   FallbackDrawsOf(0, QRat(1, 2), <<0, 0>>, QRat(99, 100), QRat(1, 2))}

InvalidJson == [kind |-> "invalid"]

\* a body without historicalData
BodyWithoutHistory ==
  [currentPrice  |-> QInt(BasePrice),
   changePercent |-> QInt(1),
   volume        |-> QInt(1000),
   high52Week    |-> QInt(BasePrice + 20),
   low52Week     |-> QInt(BasePrice - 20)]

Answer(status, body) ==
  [kind   |-> "response",
   ok     |-> status \in 200..299,
   status |-> status,
   body   |-> body]

\* what the request of fetchStockData can end in: no answer, an answer that
\* is not OK, a body that is not JSON, a body with an error, a body without
\* historicalData, a stock record
HttpOutcomes ==
  {[kind |-> "rejected"],
   Answer(500, InvalidJson),
   Answer(400, [error |-> "Symbol parameter is required"]),
   Answer(200, InvalidJson),
   Answer(200, [error |-> "unavailable"]),
   Answer(200, BodyWithoutHistory)}
  \cup {Answer(200, ResponseOf(SeriesOf(<<-2, 1>>, len))) :
          len \in {0, 1, MaxLen}}

Symbols == {<<"A", "A", "P", "L">>, <<"Z">>}

InitQuery ==
  /\ pc = "fetch"
  /\ prices = <<>>
  /\ call = NoCall
  /\ result = NoResult
  /\ stockResponse = NoResponse
  /\ data = NoData
  /\ technicalIndicators = NoIndicators
  /\ aiAnalysis = NoAnalysis
  /\ prediction = NoPrediction
  /\ random = <<>>
  /\ quote = NoQuote
  /\ request = NoRequest
  /\ http \in HttpOutcomes
  /\ query = [status |-> "pending", fetchStatus |-> "fetching",
              failureCount |-> 0]
  /\ newsResponse = NoNews
  /\ articles = <<>>
  /\ ticker = <<>>
  /\ searchTicker \in Symbols

queryVars == <<request, http, query, newsResponse, articles, ticker,
               searchTicker>>

\* lines 605-623: fetch rejects, the answer is not OK, json() rejects or the
\* body carries an error
ReceiveThrows(answer) ==
  \/ answer.kind = "rejected"
  \/ ~answer.ok
  \/ answer.body = InvalidJson
  \/ "error" \in DOMAIN answer.body

\* lines 601-636
Receive ==
  /\ pc = "fetch"
  /\ IF ReceiveThrows(http)
     THEN pc' = "catch" /\ UNCHANGED stockResponse
     ELSE pc' = "response" /\ stockResponse' = http.body
  /\ UNCHANGED <<prices, libVars, data, technicalIndicators, aiAnalysis,
                 prediction, random, quote, queryVars>>

\* line 639: historicalData.map of a body without historicalData
MapThrows ==
  /\ pc = "response"
  /\ "historicalData" \notin DOMAIN stockResponse
  /\ pc' = "catch"
  /\ UNCHANGED <<prices, libVars, engineVars, queryVars>>

\* lines 638-678 for a body with historicalData
ComputeFromHistory ==
  /\ "historicalData" \in DOMAIN stockResponse
  /\ ComputeIndicators

\* the catch block of lines 698-704 throwing the error again
Rethrow ==
  /\ pc = "catch"
  /\ pc' = "rejected"
  /\ UNCHANGED <<prices, libVars, engineVars, queryVars>>

\* lines 734-768, closes and volumes being those of the 30 days of history
FallbackRecords(draws, closes, volumes) ==
  /\ prices' = closes
  /\ technicalIndicators' = FallbackIndicators(closes, volumes)
  /\ data' = FallbackData(FallbackBasePrice(draws[1]),
                          FallbackChange(draws[2]), volumes)

\* lines 698-704 and 709-768: the catch block calls
\* generateFallbackStockData
GenerateFallbackStockData ==
  /\ pc = "catch"
  /\ \E draws \in FallbackDraws :
       /\ \E history \in {FallbackHistory(FallbackBasePrice(draws[1]),
                             SubSeq(draws, 3, Len(draws) - 1), 1, <<>>)} :
            \E closes \in {FallbackCloses(history)} :
              \E volumes \in {FallbackVolumes(history)} :
                FallbackRecords(draws, closes, volumes)
       /\ random' = random \o draws
  /\ pc' = "fallback"
  /\ UNCHANGED <<libVars, stockResponse, aiAnalysis, prediction, quote,
                 queryVars>>

\* line 771
FallbackAnalysis ==
  /\ pc = "fallback"
  /\ \E random1 \in Draws, random2 \in Draws :
       /\ aiAnalysis' = generateAIAnalysis(data, technicalIndicators,
                                           random1, random2)
       /\ random' = random \o <<random1, random2>>
  /\ pc' = "fallback-analysed"
  /\ UNCHANGED <<prices, libVars, stockResponse, data, technicalIndicators,
                 prediction, quote, queryVars>>

\* lines 774-781: the prediction from basePrice, which the first draw gave
FallbackPredict ==
  /\ pc = "fallback-analysed"
  /\ \E random3 \in Draws, random4 \in Draws, random5 \in Draws :
       /\ prediction' = BuildPrediction(FallbackBasePrice(random[1]),
                                        technicalIndicators, aiAnalysis,
                                        random3, random4, random5)
       /\ random' = random \o <<random3, random4, random5>>
  /\ pc' = "done"
  /\ UNCHANGED <<prices, libVars, stockResponse, data, technicalIndicators,
                 aiAnalysis, quote, queryVars>>

\* lines 693-697 and 783-787 return: the promise resolves and the query
\* succeeds
Resolve ==
  /\ pc = "done"
  /\ pc' = "settled"
  /\ query' = [status |-> "success", fetchStatus |-> "idle",
               failureCount |-> 0]
  /\ UNCHANGED <<prices, libVars, engineVars, request, http, newsResponse,
                 articles, ticker, searchTicker>>

NextQuery ==
  \/ Receive
  \/ MapThrows
  \/ ComputeFromHistory
  \/ GenerateAIAnalysis
  \/ Predict
  \/ GenerateFallbackStockData
  \/ FallbackAnalysis
  \/ FallbackPredict
  \/ Resolve

SpecQuery == InitQuery /\ [][NextQuery]_vars

-----------------------------------------------------------------------------
(* Properties of the stock query (SpecQuery).                              *)

\* the outcomes the request counts as failed
RequestFailed ==
  \/ http.kind = "rejected"
  \/ ~http.ok
  \/ http.body = InvalidJson
  \/ "error" \in DOMAIN http.body
  \/ "historicalData" \notin DOMAIN http.body

CompleteStockData ==
  /\ DOMAIN data = DOMAIN BodyWithoutHistory
  /\ "rsi" \in DOMAIN technicalIndicators
  /\ "overallRating" \in DOMAIN aiAnalysis
  /\ "trend" \in DOMAIN prediction
  /\ Len(prices) = Len(FilterPositive(prices))

\* generateFallbackStockData on the draws it took
IsFallbackStockData ==
  /\ Len(prices) = DisplayDays
  /\ data.currentPrice = RoundToCents(FallbackBasePrice(random[1]))
  /\ data.high52Week =
       RoundToCents(QMul(FallbackBasePrice(random[1]), QRat(13, 10)))
  /\ QEq(prediction.nextDay,
         QMul(FallbackBasePrice(random[1]),
              QAdd(QInt(1),
                   QMul(QSub(random[Len(random) - 2], QRat(1, 2)),
                        QRat(3, 100)))))

QuerySettled ==
  pc = "settled" =>
    /\ query.status = "success"
    /\ query.failureCount = 0
    /\ CompleteStockData
    /\ RequestFailed => IsFallbackStockData

\* the steps of fetchStockData short of its result: each has an action whose
\* only condition is the step (at "response" the body either has
\* historicalData or has not)
QuerySteps ==
  {"fetch", "response", "catch", "input", "analysed", "fallback",
   "fallback-analysed", "done"}

QueryRank(step) ==
  CASE step = "fetch" -> 0
    [] step = "response" -> 1
    [] step = "catch" -> 2
    [] step \in {"input", "fallback"} -> 3
    [] step \in {"analysed", "fallback-analysed"} -> 4
    [] step = "done" -> 5
    [] OTHER -> 6

\* C23: fetchStockData of the edge-function-backed hook resolves and never
\* rejects, whatever the request ends in: every step short of the result is
\* one that has a next step, every step moves on towards the result, and
\* when the promise is settled the query has succeeded without a failure
\* counted (no retry is made) with a complete StockData, which is the record
\* of generateFallbackStockData whenever the request failed.
C23_QueryNeverFails ==
  /\ [](pc # "settled" => pc \in QuerySteps)
  /\ [][QueryRank(pc') > QueryRank(pc)]_vars
  /\ []QuerySettled

\* a body without historicalData, answered with fallback data
C23_Witness ==
  /\ pc = "settled"
  /\ http.kind = "response"
  /\ http.ok
  /\ http.body = BodyWithoutHistory
  /\ query.status = "success"
  /\ IsFallbackStockData

-----------------------------------------------------------------------------
(* Strings are sequences of characters.                                    *)

UpperOf(c) ==
  CASE c = "a" -> "A"
    [] c = "l" -> "L"
    [] c = "p" -> "P"
    [] c = "z" -> "Z"
    [] OTHER -> c

\* String.prototype.toUpperCase
ToUpperCase(str) == [i \in 1..Len(str) |-> UpperOf(str[i])]

-----------------------------------------------------------------------------
(* The edge function (SpecEdge): the serve handler of part_002 answers a   *)
(* request from what Yahoo Finance answers to its two chart requests.      *)

\* the query string carries no symbol, or an empty one
NoSymbol == <<>>

Requests ==
  {[method |-> method, symbol |-> symbol] :
     method \in {"OPTIONS", "GET", "POST"},
     symbol \in {NoSymbol, <<"a", "a", "p", "l">>, <<"Z">>}}

\* the quote request rejects, is answered not OK, or is answered without a
\* result
QuoteFailures == {"quote-rejected", "quote-not-ok", "quote-no-result"}

\* the history request is answered not OK, or is answered without a result
HistoryUnavailable == {"history-not-ok", "history-no-result"}

\* the history request rejects, or its answer is not a chart
HistoryThrows == {"history-rejected", "history-malformed"}

\* what Yahoo Finance answers to the two requests
Upstreams ==
  Quotes
    \cup {[kind |-> kind, meta |-> meta] :
            kind \in QuoteFailures \cup HistoryUnavailable \cup HistoryThrows,
            meta \in Metas}

\* all four answers carry Access-Control-Allow-Origin: *
EdgeAnswer(status, body) ==
  [kind   |-> "response",
   ok     |-> status \in 200..299,
   status |-> status,
   cors   |-> TRUE,
   body   |-> body]

NullBody == [kind |-> "null"]

\* the handler throws inside its try block with every fetch that rejects,
\* a quote answer that is not OK or has no result, and a history answer
\* that is not a chart
EdgeThrowsOnHistory(upstream) ==
  upstream.kind \in QuoteFailures \cup HistoryThrows \cup HistoryUnavailable

\* lines 68-86 and 95-116: as above, but a history answer that is not OK or
\* has no result is skipped
EdgeThrows(upstream) == upstream.kind \in QuoteFailures \cup HistoryThrows

\* Math.floor(Math.random() * 50000000) + 1000000
FallbackQuoteVolume(draw) ==
  QToInt(QFloor(QMul(draw, QInt(50000000)))) + 1000000

\* lines 216-227, history being the 30 days of lines 199-214 with whole
\* prices; draw is the one of line 223
FallbackResponseOf(symbol, basePrice, change, history, draw) ==
  [symbol        |-> symbol,
   currentPrice  |-> RoundToCents(basePrice),
   changePercent |-> RoundToCents(QMul(QDiv(change, basePrice), QInt(100))),
   volume        |-> QInt(FallbackQuoteVolume(draw)),
   high52Week    |-> RoundToCents(QMul(basePrice, QRat(13, 10))),
   low52Week     |-> RoundToCents(QMul(basePrice, QRat(7, 10))),
   historicalData |->
     [i \in 1..Len(history) |->
        [date   |-> i,
         price  |-> QToInt(history[i].price),
         volume |-> history[i].volume]]]

\* generateFallbackData(symbol) of lines 193-228 on the draws it takes: the
\* base price, the change, two a day, the market capital and the volume
generateFallbackData(symbol, draws) ==
  FallbackResponseOf(symbol, FallbackBasePrice(draws[1]),
    FallbackChange(draws[2]),
    FallbackHistory(FallbackBasePrice(draws[1]),
                    SubSeq(draws, 3, Len(draws) - 2), 1, <<>>),
    draws[Len(draws)])

\* the draws of generateFallbackData: those of generateFallbackStockData
\* and the one of the volume
EdgeFallbackDraws == {draws \o <<draws[2]>> : draws \in FallbackDraws}

\* lines 104-106 and 157-168 when the history is skipped
StockDataWithoutHistory(symbol, meta) ==
  [symbol        |-> symbol,
   currentPrice  |-> QInt(CurrentPrice(meta)),
   changePercent |-> ChangePercent(meta),
   volume        |-> QInt(meta.regularMarketVolume),
   high52Week    |-> QMul(QInt(CurrentPrice(meta)), QRat(12, 10)),
   low52Week     |-> QMul(QInt(CurrentPrice(meta)), QRat(8, 10)),
   historicalData |-> <<>>]

\* lines 88-168 when both requests are answered with a chart
StockDataWithHistory(symbol, upstream) ==
  [symbol |-> symbol]
    @@ StockDataOf(upstream.meta, upstream.timestamp,
                   FilterPositive(upstream.close),
                   FilterPositive(upstream.volume))

InitEdge ==
  /\ pc = "request"
  /\ prices = <<>>
  /\ call = NoCall
  /\ result = NoResult
  /\ stockResponse = NoResponse
  /\ data = NoData
  /\ technicalIndicators = NoIndicators
  /\ aiAnalysis = NoAnalysis
  /\ prediction = NoPrediction
  /\ random = <<>>
  /\ quote \in Upstreams
  /\ request \in Requests
  /\ http = NoHttp
  /\ query = NoQuery
  /\ newsResponse = NoNews
  /\ articles = <<>>
  /\ ticker = <<>>
  /\ searchTicker = <<>>

Answered(answer) ==
  /\ pc = "request"
  /\ pc' = "answered"
  /\ http' = answer
  /\ UNCHANGED <<prices, libVars, stockResponse, data, technicalIndicators,
                 aiAnalysis, prediction, quote, request, query, newsResponse,
                 articles, ticker, searchTicker>>

\* lines 41-49
ServeOptions ==
  /\ request.method = "OPTIONS"
  /\ Answered(EdgeAnswer(200, NullBody))
  /\ UNCHANGED random

\* lines 55-63
ServeNoSymbol ==
  /\ request.method # "OPTIONS"
  /\ request.symbol = NoSymbol
  /\ Answered(EdgeAnswer(400, [error |-> "Symbol parameter is required"]))
  /\ UNCHANGED random

\* lines 65-175: the try block runs to its end
ServeStockData ==
  /\ request.method # "OPTIONS"
  /\ request.symbol # NoSymbol
  /\ ~EdgeThrows(quote)
  /\ Answered(EdgeAnswer(200,
       IF quote.kind \in HistoryUnavailable
       THEN StockDataWithoutHistory(ToUpperCase(request.symbol), quote.meta)
       ELSE StockDataWithHistory(ToUpperCase(request.symbol), quote)))
  /\ UNCHANGED random

\* lines 177-190: the catch block
ServeFallback ==
  /\ request.method # "OPTIONS"
  /\ request.symbol # NoSymbol
  /\ EdgeThrows(quote)
  /\ \E draws \in EdgeFallbackDraws :
       /\ Answered(EdgeAnswer(200,
            generateFallbackData(ToUpperCase(request.symbol), draws)))
       /\ random' = draws

NextEdge == ServeOptions \/ ServeNoSymbol \/ ServeStockData \/ ServeFallback

SpecEdge == InitEdge /\ [][NextEdge]_vars

-----------------------------------------------------------------------------
(* Properties of the edge function (SpecEdge).                             *)

IsStockResponse(body) ==
  DOMAIN body = {"symbol", "currentPrice", "changePercent", "volume",
                 "high52Week", "low52Week", "historicalData"}

\* the body is what generateFallbackData made of the draws taken
IsFallbackData(body) ==
  /\ random # <<>>
  /\ Len(body.historicalData) = DisplayDays
  /\ body.currentPrice = RoundToCents(FallbackBasePrice(random[1]))
  /\ body.high52Week =
       RoundToCents(QMul(FallbackBasePrice(random[1]), QRat(13, 10)))

HistoryDefaults(body) ==
  /\ body.historicalData = <<>>
  /\ body.high52Week = QMul(body.currentPrice, QRat(12, 10))
  /\ body.low52Week = QMul(body.currentPrice, QRat(8, 10))

\* the part of the claim about OPTIONS, a missing symbol and the quote
EdgeAnswersRequest ==
  /\ http.kind = "response"
  /\ request.method = "OPTIONS" => (http.status = 200 /\ http.cors)
  /\ (request.method # "OPTIONS" /\ request.symbol = NoSymbol) =>
       (http.status = 400 /\ "error" \in DOMAIN http.body)
  /\ (request.method # "OPTIONS" /\ request.symbol # NoSymbol) =>
       /\ http.status = 200
       /\ IsStockResponse(http.body)
       /\ quote.kind \in QuoteFailures => IsFallbackData(http.body)

WithSymbol == request.method # "OPTIONS" /\ request.symbol # NoSymbol

-----------------------------------------------------------------------------
(* fetchNewsData (SpecNews, part_000).  An item of the news search is      *)
(* known by what the function reads of it: whether it has a title and a    *)
(* link, whether its publishing time is a time, and how many of the high,  *)
(* medium and low impact words its text contains.                          *)

\* newsCount=10 of the search request
MaxNews == 10

\* articles asked of generateRealisticMockNews when fewer than 5 are real
MockTarget == 8

\* .slice(0, 8)
MaxArticles == 8

\* lines 45-67: 5, plus 3, 2 and 1 for every high, medium and low impact
\* word, kept within 1..10
calculateImpactScore(high, medium, low) ==
  Min(Max(5 + 3 * high + 2 * medium + low, 1), 10)

\* the impact scores of the eight newsTemplates, lines 172-229
TemplateScores == <<6, 7, 5, 5, 6, 7, 4, 5>>

\* orders .sort(() => 0.5 - Math.random()) can leave the templates in
Shuffles ==
  {<<1, 2, 3, 4, 5, 6, 7, 8>>,
   <<8, 7, 6, 5, 4, 3, 2, 1>>,
   <<7, 3, 1, 8, 2, 5, 4, 6>>}

\* lines 231-246
generateRealisticMockNews(count, shuffle) ==
  [index \in 1..Min(count, Len(shuffle)) |->
     [mock        |-> TRUE,
      title       |-> shuffle[index],
      impactScore |-> TemplateScores[shuffle[index]]]]

NewsItem(i, pat, mask) ==
  [title    |-> ~(mask = 2 /\ i % 4 = 0),
   link     |-> ~(mask = 2 /\ i % 5 = 0),
   validTime |-> ~(mask = 3 /\ i = 4),
   high     |-> IF pat = 1 THEN 0 ELSE i % 2,
   medium   |-> IF pat = 3 THEN (i + 1) % 3 ELSE 0,
   low      |-> IF pat = 2 THEN i % 3 ELSE 0]

\* what the search answers: nothing (fetch rejects), not OK, a body that is
\* not JSON, or up to MaxNews items; and whether the RSS request is answered
NewsOutcomes ==
  {[kind |-> kind, rss |-> rss] :
     kind \in {"rejected", "not-ok", "malformed"}, rss \in BOOLEAN}
  \cup {[kind |-> "ok", rss |-> rss,
          news |-> [i \in 1..n |-> NewsItem(i, pat, mask)]] :
          n \in 0..MaxNews, pat \in 1..3, mask \in 1..3, rss \in BOOLEAN}

RECURSIVE ArticlesFrom(_, _, _)
\* the forEach of lines 107-125: an item without title or link is passed
\* over, an item whose time is not a time throws and ends the loop
ArticlesFrom(news, i, list) ==
  IF i > Len(news) THEN list
  ELSE IF ~(news[i].title /\ news[i].link)
  THEN ArticlesFrom(news, i + 1, list)
  ELSE IF ~news[i].validTime THEN list
  ELSE ArticlesFrom(news, i + 1,
         Append(list,
           [mock        |-> FALSE,
            title       |-> i,
            impactScore |-> calculateImpactScore(news[i].high,
                              news[i].medium, news[i].low)]))

\* lines 92-129
RealArticles(response) ==
  IF response.kind = "ok" THEN ArticlesFrom(response.news, 1, <<>>) ELSE <<>>

\* lines 150-153
TopUp(list, shuffle) ==
  IF Len(list) < 5
  THEN list \o generateRealisticMockNews(MockTarget - Len(list), shuffle)
  ELSE list

\* sorted is in non-increasing order of impactScore: article goes behind
\* every article that does not score less
InsertByImpact(sorted, article) ==
  SubSeq(sorted, 1,
         Cardinality({j \in 1..Len(sorted) :
                        sorted[j].impactScore >= article.impactScore}))
    \o <<article>>
    \o SubSeq(sorted,
              Cardinality({j \in 1..Len(sorted) :
                             sorted[j].impactScore >= article.impactScore})
                + 1,
              Len(sorted))

RECURSIVE SortFrom(_, _, _)
SortFrom(list, i, sorted) ==
  IF i > Len(list) THEN sorted
  ELSE SortFrom(list, i + 1, InsertByImpact(sorted, list[i]))

\* the articles left as they are
Unsorted(list) == list

\* .sort((a, b) => b.impactScore - a.impactScore), a stable sort
SortByImpact(list) == SortFrom(list, 1, <<>>)

InitNews ==
  /\ pc = "news"
  /\ prices = <<>>
  /\ call = NoCall
  /\ result = NoResult
  /\ stockResponse = NoResponse
  /\ data = NoData
  /\ technicalIndicators = NoIndicators
  /\ aiAnalysis = NoAnalysis
  /\ prediction = NoPrediction
  /\ random = <<>>
  /\ quote = NoQuote
  /\ request = NoRequest
  /\ http = NoHttp
  /\ query = NoQuery
  /\ newsResponse \in NewsOutcomes
  /\ articles = <<>>
  /\ ticker = <<>>
  /\ searchTicker \in Symbols

\* lines 87-162: the function returns from its try block; the RSS request
\* of lines 132-147 changes nothing, whatever it is answered
FetchNewsData ==
  /\ pc = "news"
  /\ \E shuffle \in Shuffles :
       articles' =
         SubSeq(SortByImpact(TopUp(RealArticles(newsResponse), shuffle)), 1,
                Min(MaxArticles,
                    Len(TopUp(RealArticles(newsResponse), shuffle))))
  /\ pc' = "news-returned"
  /\ UNCHANGED <<prices, libVars, engineVars, request, http, query,
                 newsResponse, ticker, searchTicker>>

NextNews == FetchNewsData

SpecNews == InitNews /\ [][NextNews]_vars

-----------------------------------------------------------------------------
(* Properties of fetchNewsData (SpecNews).                                 *)

\* the items of the answer an article is made of
UsableItems ==
  IF newsResponse.kind # "ok" THEN {}
  ELSE {i \in 1..Len(newsResponse.news) :
          /\ newsResponse.news[i].title
          /\ newsResponse.news[i].link
          /\ \A j \in 1..i :
               (newsResponse.news[j].title /\ newsResponse.news[j].link)
                 => newsResponse.news[j].validTime}

MockArticles == {i \in 1..Len(articles) : articles[i].mock}

\* C25: fetchNewsData returns (it never rejects), whatever the news request
\* ends in, between 5 and 8 articles in non-increasing order of impactScore;
\* with fewer than 5 real articles it returns exactly 8, the real ones and
\* mock articles for the rest.
C25_FiveToEightArticles ==
  pc = "news-returned" =>
    /\ Len(articles) >= 5
    /\ Len(articles) <= 8
    /\ \A i \in 1..Len(articles) : \A j \in i..Len(articles) :
         articles[i].impactScore >= articles[j].impactScore
    /\ Cardinality(UsableItems) < 5 =>
         /\ Len(articles) = 8
         /\ Cardinality(MockArticles) = 8 - Cardinality(UsableItems)
    /\ Cardinality(UsableItems) >= 5 => MockArticles = {}

\* three real articles and five mock ones, the mock ones drawn out of order
C25_Witness ==
  /\ pc = "news-returned"
  /\ Cardinality(UsableItems) = 3
  /\ Cardinality(MockArticles) = 5
  /\ \E i \in MockArticles : \E j \in MockArticles :
       i < j /\ articles[i].title > articles[j].title

-----------------------------------------------------------------------------
(* StockDashboard (SpecDashboard): the search input, the Analyze button,   *)
(* the Enter key, the suggestion badges of the welcome panel, and the      *)
(* stock query useStockData keeps for the submitted ticker.  query.cached  *)
(* is the set of tickers the query client holds data for.  pc is the last  *)
(* event.                                                                  *)

RECURSIVE TrimStart(_)
TrimStart(str) ==
  IF str # <<>> /\ str[1] = " " THEN TrimStart(Tail(str)) ELSE str

RECURSIVE TrimEnd(_)
TrimEnd(str) ==
  IF str # <<>> /\ str[Len(str)] = " "
  THEN TrimEnd(SubSeq(str, 1, Len(str) - 1))
  ELSE str

\* String.prototype.trim
Trim(str) == TrimEnd(TrimStart(str))

\* texts the input can hold
InputTexts ==
  {<<>>, <<" ">>, <<" ", " ">>, <<"a", "a", "p", "l">>, <<" ", "z", " ">>,
   <<"Z">>, <<"1", "a">>}

\* symbols of the badges, line 229
BadgeSymbols == {<<"A", "A", "P", "L">>, <<"T", "S", "L", "A">>}

\* handleSearch submitting whatever the input holds
SubmitsAlways(text) == TRUE

\* line 21: if (ticker.trim())
Submits(text) == Trim(text) # <<>>

\* line 377 of the hook: enabled: !!symbol && symbol.length > 0
QueryEnabled(symbol) == symbol # <<>> /\ Len(symbol) > 0

\* isLoading of useQuery: the first fetch of a ticker is under way
IsLoading == query.status = "pending" /\ query.fetchStatus = "fetching"

\* line 218: !searchTicker && !isLoading
WelcomeShown == searchTicker = <<>> /\ ~IsLoading

\* the query of useStockData(symbol) when the ticker becomes symbol
QueryFor(symbol) ==
  IF ~QueryEnabled(symbol)
  THEN [status |-> "pending", fetchStatus |-> "idle", failureCount |-> 0,
        cached |-> query.cached]
  ELSE IF symbol \in query.cached
  THEN [status |-> "success", fetchStatus |-> "idle", failureCount |-> 0,
        cached |-> query.cached]
  ELSE [status |-> "pending", fetchStatus |-> "fetching", failureCount |-> 0,
        cached |-> query.cached]

InitDashboard ==
  /\ pc = "mounted"
  /\ prices = <<>>
  /\ call = NoCall
  /\ result = NoResult
  /\ stockResponse = NoResponse
  /\ data = NoData
  /\ technicalIndicators = NoIndicators
  /\ aiAnalysis = NoAnalysis
  /\ prediction = NoPrediction
  /\ random = <<>>
  /\ quote = NoQuote
  /\ request = NoRequest
  /\ http = NoHttp
  /\ query = [status |-> "pending", fetchStatus |-> "idle",
              failureCount |-> 0, cached |-> {}]
  /\ newsResponse = NoNews
  /\ articles = <<>>
  /\ ticker = <<>>
  /\ searchTicker = <<>>

dashboardFrame ==
  <<prices, libVars, engineVars, request, http, newsResponse, articles>>

\* line 59: onChange={(e) => setTicker(e.target.value)}
Type ==
  /\ \E text \in InputTexts : ticker' = text
  /\ pc' = "typed"
  /\ UNCHANGED <<searchTicker, query, dashboardFrame>>

\* lines 20-24
handleSearch ==
  /\ IF Submits(ticker) /\ ToUpperCase(ticker) # searchTicker
     THEN /\ searchTicker' = ToUpperCase(ticker)
          /\ query' = QueryFor(ToUpperCase(ticker))
     ELSE UNCHANGED <<searchTicker, query>>
  /\ UNCHANGED <<ticker, dashboardFrame>>

\* lines 64-71: the button is disabled while isLoading
ClickAnalyze ==
  /\ ~IsLoading
  /\ handleSearch
  /\ pc' = "clicked"

\* lines 26-30
PressEnter ==
  /\ handleSearch
  /\ pc' = "entered"

\* lines 229-241: the badges are part of the welcome panel
ClickBadge ==
  /\ WelcomeShown
  /\ \E symbol \in BadgeSymbols :
       /\ ticker' = symbol
       /\ searchTicker' = symbol
       /\ query' = QueryFor(symbol)
  /\ pc' = "badge"
  /\ UNCHANGED dashboardFrame

\* fetchStockData resolves
QuerySucceeds ==
  /\ query.fetchStatus = "fetching"
  /\ query' = [status |-> "success", fetchStatus |-> "idle",
               failureCount |-> 0,
               cached |-> query.cached \cup {searchTicker}]
  /\ pc' = "loaded"
  /\ UNCHANGED <<ticker, searchTicker, dashboardFrame>>

\* lines 367-370 and 379 of the hook: fetchStockData of the first version
\* throws, for the last time after three retries
QueryFails ==
  /\ query.fetchStatus = "fetching"
  /\ query' = [status |-> "error", fetchStatus |-> "idle",
               failureCount |-> 4, cached |-> query.cached]
  /\ pc' = "failed"
  /\ UNCHANGED <<ticker, searchTicker, dashboardFrame>>

NextDashboard ==
  \/ Type
  \/ ClickAnalyze
  \/ PressEnter
  \/ ClickBadge
  \/ QuerySucceeds
  \/ QueryFails

SpecDashboard == InitDashboard /\ [][NextDashboard]_vars

-----------------------------------------------------------------------------
(* Properties of StockDashboard (SpecDashboard).                           *)

LowercaseLetters == {"a", "l", "p", "z"}

IsBlank(str) == \A i \in 1..Len(str) : str[i] = " "

NoLowercase(str) == \A i \in 1..Len(str) : str[i] \notin LowercaseLetters

TickerWellFormed ==
  searchTicker = <<>> \/ (~IsBlank(searchTicker) /\ NoLowercase(searchTicker))

\* C26: after any sequence of typing, Analyze clicks, Enter presses and
\* badge clicks, searchTicker is empty or a non-blank string without
\* lowercase letters; a submit with an empty or blank input leaves it
\* unchanged; once it is not empty it never becomes empty again, so the
\* welcome panel is not shown again; and the stock query only fetches for a
\* ticker that is not empty.
C26_SearchTickerWellFormed ==
  /\ [](TickerWellFormed /\ (query.fetchStatus = "fetching"
                               => searchTicker # <<>>))
  /\ [][/\ (pc' \in {"clicked", "entered"} /\ IsBlank(ticker))
            => searchTicker' = searchTicker
        /\ searchTicker # <<>> => (searchTicker' # <<>> /\ ~WelcomeShown')]_vars

\* a ticker typed with blanks around it was submitted and loaded, and the
\* input holds a blank text again
C26_Witness ==
  /\ pc = "entered"
  /\ searchTicker = <<" ", "Z", " ">>
  /\ ticker = <<" ", " ">>
  /\ <<" ", "Z", " ">> \in query.cached

=============================================================================
